---- MODULE Spec2Model ----
(***************************************************************************)
(* A model of the RAG core of the Instagram coach: the metadata codec of   *)
(* the vector store, the vector store and the data load, the boundary      *)
(* entry points with their validation and mode resolution, the             *)
(* language-model client with its consumers, the prompt builders, the      *)
(* voice impact agent, and the construction of the pipeline components.    *)
(*                                                                         *)
(* Strings are sequences of tokens: a token is a comma-free piece of text  *)
(* or the separator ",".  "a,b" is <<"a", ",", "b">>, "" is <<>>.          *)
(* Python values carry their type: [t |-> "str" | "int" | "float" |        *)
(* "list" | "dict" | "none", v |-> the value].  Dict keys are strings,     *)
(* in which the prefix "metrics_" is one token.                            *)
(***************************************************************************)
EXTENDS Integers, Sequences, FiniteSets, TLC

VARIABLES
    \* the metadata codec applied to one record
    codec_pc, codec_m, codec_flat, codec_out,
    \* the vector store and the pipeline that loads it
    collection,          \* the entries of the ChromaDB collection, in insertion order
    influencer_profile,  \* RAGPipeline.influencer_profile
    store_last,          \* the last call on the store or the pipeline, and its outcome
    \* the boundary entry points: the API, the CLI chat loop, the agent's methods
    agent_initialized,   \* api.agent is not None
    current_mode,        \* InstagramCoachAgent.current_mode
    entry_last,          \* the last call of an entry point, and its outcome
    \* one call of the language-model client and its consumer
    cl_pc,               \* where the call is
    cl_call,             \* the consumer, the path, the history length at the start, the kind of the 200 answer
    cl_outcomes,         \* what each HTTP request sent for this call has met
    cl_total,            \* what is left of Retry.total
    cl_completion,       \* the completion the upstream produced for this call
    cl_wire,             \* the lines of the streaming body not read yet
    cl_yielded,          \* the fragments the generator has yielded
    cl_error,            \* the error the client raised
    cl_result,           \* what the consumer handed to its caller
    conversation_history, \* InstagramCoachAgent.conversation_history
    \* one call of generate_with_mode up to its prompts
    pr_pc,               \* where the call is
    pr_call,             \* the question and n_results
    relevant_posts,      \* what retrieve_relevant_posts returned
    system_prompt,       \* the context block format_prompt_with_context appended
    user_prompt,         \* the posts section of the user prompt
    \* one call of VoiceImpactAgent.generate_voice_impact_summary
    vo_pc,               \* where the call is
    vo_summary,          \* summary_data, once generate_voice_summary returned
    vo_requests,         \* the requests sent to the language model and to the TTS API
    vo_result,           \* what the caller obtained
    \* the construction of the pipeline components
    st_pc,               \* not started, started, or failed
    st_dims,             \* the dimensions: configured, of the model, of the persisted index
    st_last,             \* the last add or query after the start, and its outcome
    \* the prompt manager and one whole call of the dispatcher
    prompts_cache,       \* PromptManager._prompts_cache
    prompt_files,        \* the template files of the prompts directory
    pm_last,             \* the last load of a template, and its outcome
    gm_pc,               \* where the call is
    gm_call,             \* the arguments of the call
    gm_locals,           \* relevant_posts, the template load, system_prompt, user_prompt
    gm_stages,           \* the stages the call has gone through
    gm_requests,         \* the payloads sent to the language model for this call
    gm_result            \* what the caller obtained

codecVars == <<codec_pc, codec_m, codec_flat, codec_out>>
storeVars == <<collection, influencer_profile, store_last>>
entryVars == <<agent_initialized, current_mode, entry_last>>
clientVars == <<cl_pc, cl_call, cl_outcomes, cl_total, cl_completion, cl_wire,
                cl_yielded, cl_error, cl_result, conversation_history>>

promptVars == <<pr_pc, pr_call, relevant_posts, system_prompt, user_prompt>>
voiceVars == <<vo_pc, vo_summary, vo_requests, vo_result>>
startupVars == <<st_pc, st_dims, st_last>>
dispatchVars == <<prompts_cache, prompt_files, pm_last, gm_pc, gm_call, gm_locals,
                  gm_stages, gm_requests, gm_result>>

vars == <<codecVars, storeVars, entryVars, clientVars, promptVars, voiceVars, startupVars,
          dispatchVars>>

----------------------------------------------------------------------------
(* Bounds *)

MaxTags == 2      \* longest hashtag list of a record
MaxMetric == 1    \* largest value of a metric
MaxFrags == 3     \* most fragments of a completion

----------------------------------------------------------------------------
(* Python values *)

PyStr(s) == [t |-> "str", v |-> s]
PyInt(n) == [t |-> "int", v |-> n]
PyFloat(n) == [t |-> "float", v |-> n]
PyList(l) == [t |-> "list", v |-> l]
PyDict(d) == [t |-> "dict", v |-> d]
None == [t |-> "none", v |-> 0]

\* isinstance(value, (str, int, float, bool))
IsScalar(value) == value.t \in {"str", "int", "float", "bool"}

\* the keys of a record
K(name) == <<name>>
METRICS_PREFIX == "metrics_"

\* json.dumps(value) of a value that is neither a scalar, nor the metrics
\* dict, nor the hashtags list
JsonDumps(value) == IF value.t = "none" THEN <<"null">> ELSE <<"<json>">>

----------------------------------------------------------------------------
(* str.join and str.split on "," *)

RECURSIVE Join(_)
\* ",".join(value)
Join(value) ==
    IF value = <<>> THEN <<>>
    ELSE IF Len(value) = 1 THEN value[1]
    ELSE value[1] \o <<",">> \o Join(Tail(value))

RECURSIVE Split(_)
\* value.split(",")
Split(value) ==
    IF \A i \in 1..Len(value) : value[i] # ","
    THEN <<value>>
    ELSE LET i == CHOOSE j \in 1..Len(value) :
                      value[j] = "," /\ \A h \in 1..(j - 1) : value[h] # ","
         IN <<SubSeq(value, 1, i - 1)>> \o Split(SubSeq(value, i + 1, Len(value)))

----------------------------------------------------------------------------
(* VectorStore._flatten_metadata *)

\* the flat value of one item of the metadata that is not the metrics dict
FlattenValue(key, value) ==
    IF key = K("hashtags") /\ value.t = "list" THEN PyStr(Join(value.v))
    ELSE IF IsScalar(value) THEN value
    ELSE PyStr(JsonDumps(value))

IsMetricsDict(key, value) == key = K("metrics") /\ value.t = "dict"

_flatten_metadata(metadata) ==
    LET plain == {key \in DOMAIN metadata : ~IsMetricsDict(key, metadata[key])}
        nested == {key \in DOMAIN metadata : IsMetricsDict(key, metadata[key])}
        metricKeys == UNION {DOMAIN metadata[key].v : key \in nested}
        flatKeys == plain \cup {<<METRICS_PREFIX>> \o mk : mk \in metricKeys}
    IN [key \in flatKeys |->
            IF key \in plain THEN FlattenValue(key, metadata[key])
            ELSE metadata[K("metrics")].v[Tail(key)]]

----------------------------------------------------------------------------
(* VectorStore._unflatten_metadata *)

\* key.startswith("metrics_")
StartsWithMetrics(key) == Len(key) > 0 /\ key[1] = METRICS_PREFIX

StripMetricsKeepsPrefix(key) == key

\* key.replace("metrics_", "")
StripMetrics(key) == SelectSeq(key, LAMBDA tok : tok # METRICS_PREFIX)

\* value.split(",") if value else []
RestoreHashtagsAlwaysSplit(value) == Split(value)

RestoreHashtags(value) == IF value # <<>> THEN Split(value) ELSE <<>>

_unflatten_metadata(flat_metadata) ==
    LET metricKeys == {key \in DOMAIN flat_metadata : StartsWithMetrics(key)}
        plain == DOMAIN flat_metadata \ metricKeys
        metrics == [mk \in {StripMetrics(key) : key \in metricKeys} |->
                       flat_metadata[CHOOSE key \in metricKeys : StripMetrics(key) = mk]]
        keys == plain \cup (IF metricKeys # {} THEN {K("metrics")} ELSE {})
    IN [key \in keys |->
            IF key = K("metrics") /\ metricKeys # {} THEN PyDict(metrics)
            ELSE IF key = K("hashtags") /\ flat_metadata[key].t = "str"
                 THEN PyList(RestoreHashtags(flat_metadata[key].v))
                 ELSE flat_metadata[key]]

----------------------------------------------------------------------------
(* Records *)

\* the hashtags of the records: plain ones, one that holds a comma, and ""
Tags == {<<"a">>, <<"a", ",", "b">>, <<>>}

TagLists == UNION {[1..n -> Tags] : n \in 0..MaxTags}

MetricValues == 0..MaxMetric

Metrics(likes, comments) ==
    (K("likes") :> PyInt(likes)) @@ (K("comments") :> PyInt(comments))
    @@ (K("shares") :> PyInt(0)) @@ (K("saves") :> PyInt(0))
    @@ (K("reach") :> PyInt(1)) @@ (K("impressions") :> PyInt(1))
    @@ (K("engagement_rate") :> PyFloat(21))

\* a post: the ContentRecord shape, and a media_url that may be null
Post(id, likes, comments, hashtags, media_url) ==
    (K("id") :> PyStr(<<id>>)) @@ (K("caption") :> PyStr(<<"c">>))
    @@ (K("media_type") :> PyStr(<<"photo">>))
    @@ (K("timestamp") :> PyStr(<<"2024-01-01">>))
    @@ (K("metrics") :> PyDict(Metrics(likes, comments)))
    @@ (K("hashtags") :> PyList(hashtags))
    @@ (K("media_url") :> media_url)

Records ==
    {Post("p1", likes, 0, hashtags, media_url) :
        likes \in MetricValues, hashtags \in TagLists,
        media_url \in {PyStr(<<"u">>), None}}

\* only the known nested shapes: the metrics dict, the hashtags list, scalars
ContentRecordShaped(m) ==
    \A key \in DOMAIN m :
        \/ IsMetricsDict(key, m[key])
        \/ key = K("hashtags") /\ m[key].t = "list"
        \/ IsScalar(m[key])

----------------------------------------------------------------------------
(* The codec on one record *)

CodecIdle ==
    /\ codec_pc = "idle"
    /\ codec_m = <<>>
    /\ codec_flat = <<>>
    /\ codec_out = <<>>

StoreIdle ==
    /\ collection = <<>>
    /\ influencer_profile = None
    /\ store_last = [op |-> "init"]

NoCall ==
    [entry |-> "none", mode |-> "-", n_posts |-> 0, focus |-> "-",
     status |-> "-", mode_used |-> "-", n_results |-> 0, question |-> "-",
     embedded |-> FALSE, requested |-> FALSE]

EntryIdle ==
    /\ agent_initialized = TRUE
    /\ current_mode = "content_analyst"
    /\ entry_last = NoCall

NoError == [kind |-> "none", msg |-> "-", cause |-> "-", status |-> 0]
NoResult == [status |-> "-", text |-> <<>>]
NoClientCall ==
    [consumer |-> "none", stream |-> FALSE, history_len |-> 0, answer |-> "-",
     exhausted |-> FALSE, question |-> <<>>]

ClientIdle ==
    /\ cl_pc = "idle"
    /\ cl_call = NoClientCall
    /\ cl_outcomes = <<>>
    /\ cl_total = 0
    /\ cl_completion = <<>>
    /\ cl_wire = <<>>
    /\ cl_yielded = <<>>
    /\ cl_error = NoError
    /\ cl_result = NoResult
    /\ conversation_history = <<>>

PromptIdle ==
    /\ pr_pc = "idle"
    /\ pr_call = [question |-> "-", n_results |-> 0]
    /\ relevant_posts = <<>>
    /\ system_prompt = <<>>
    /\ user_prompt = <<>>

NoSummary ==
    [stage |-> "none", post |-> None, metrics |-> <<>>, text |-> <<>>, clean_text |-> <<>>]

VoiceIdle ==
    /\ vo_pc = "idle"
    /\ vo_summary = NoSummary
    /\ vo_requests = <<>>
    /\ vo_result = [status |-> "-"]

NoDims == [configured |-> 0, model_name |-> "-", model |-> 0, index |-> 0]

StartupIdle ==
    /\ st_pc = "started"
    /\ st_dims = NoDims
    /\ st_last = [op |-> "none"]

NoGmCall ==
    [entry |-> "none", mode |-> "-", question |-> "-", n_results |-> 0, stream |-> FALSE,
     temperature |-> None, max_tokens |-> None]
NoLocals == [relevant_posts |-> <<>>, loaded |-> [op |-> "none"],
             system_prompt |-> <<>>, user_prompt |-> <<>>]
NoGmResult == [status |-> "-"]

DispatchIdle ==
    /\ prompts_cache = <<>>
    /\ prompt_files = <<>>
    /\ pm_last = [op |-> "none"]
    /\ gm_pc = "idle"
    /\ gm_call = NoGmCall
    /\ gm_locals = NoLocals
    /\ gm_stages = <<>>
    /\ gm_requests = <<>>
    /\ gm_result = NoGmResult

OthersIdle == PromptIdle /\ VoiceIdle /\ StartupIdle /\ DispatchIdle

InitCodec ==
    /\ codec_pc = "record"
    /\ codec_m \in Records
    /\ codec_flat = <<>>
    /\ codec_out = <<>>
    /\ StoreIdle
    /\ EntryIdle
    /\ ClientIdle
    /\ OthersIdle

CodecFlatten ==
    /\ codec_pc = "record"
    /\ codec_flat' = _flatten_metadata(codec_m)
    /\ codec_pc' = "flat"
    /\ UNCHANGED <<codec_m, codec_out, storeVars, entryVars, clientVars, promptVars, voiceVars, startupVars, dispatchVars>>

CodecUnflatten ==
    /\ codec_pc = "flat"
    /\ codec_out' = _unflatten_metadata(codec_flat)
    /\ codec_pc' = "restored"
    /\ UNCHANGED <<codec_m, codec_flat, storeVars, entryVars, clientVars, promptVars, voiceVars, startupVars, dispatchVars>>

NextCodec == CodecFlatten \/ CodecUnflatten

SpecCodec == InitCodec /\ [][NextCodec]_vars

----------------------------------------------------------------------------
(* EmbeddingGenerator *)

\* ", ".join(hashtags): the hashtags of the document text
RECURSIVE JoinCommaSpace(_)
JoinCommaSpace(value) ==
    IF value = <<>> THEN <<>>
    ELSE IF Len(value) = 1 THEN value[1]
    ELSE value[1] \o <<", ">> \o JoinCommaSpace(Tail(value))

\* post.get(key, default), metrics.get(key, default)
Get(dict, key, default) == IF key \in DOMAIN dict THEN dict[key] ELSE default

\* the document text of a post: the fields the template renders, in its order
create_post_text(post) ==
    LET metrics == Get(post, K("metrics"), PyDict(<<>>)).v
    IN <<Get(post, K("caption"), PyStr(<<>>)).v,
         Get(post, K("media_type"), PyStr(<<"unknown">>)).v,
         Get(post, K("timestamp"), PyStr(<<>>)).v,
         Get(metrics, K("engagement_rate"), PyInt(0)).v,
         Get(metrics, K("likes"), PyInt(0)).v,
         Get(metrics, K("comments"), PyInt(0)).v,
         Get(metrics, K("shares"), PyInt(0)).v,
         Get(metrics, K("saves"), PyInt(0)).v,
         Get(metrics, K("reach"), PyInt(0)).v,
         Get(metrics, K("impressions"), PyInt(0)).v,
         JoinCommaSpace(Get(post, K("hashtags"), PyList(<<>>)).v)>>

\* the embedding model, a deterministic function of the text: here the vector
\* (likes, number of hashtag tokens) of a document text
embed_text(text) == <<text[5], Len(text[11])>>

embed_post(post) ==
    [embedding |-> embed_text(create_post_text(post)), text |-> create_post_text(post)]

----------------------------------------------------------------------------
(* The ChromaDB collection *)

PostIds == {"p1", "p2"}

\* the posts of the posts file and of the store
StorePosts ==
    {Post(id, likes, 0, << <<"a">> >>, PyStr(<<"u">>)) :
        id \in PostIds, likes \in MetricValues}

PostId(post) == post[K("id")].v[1]

DistinctIds(ids) == \A i, j \in 1..Len(ids) : i # j => ids[i] # ids[j]

\* the posts files: at least one post, the ids unique, "p1" before "p2"
PostFiles ==
    {posts \in UNION {[1..n -> StorePosts] : n \in 1..Cardinality(PostIds)} :
        /\ DistinctIds([i \in 1..Len(posts) |-> PostId(posts[i])])
        /\ Len(posts) = 2 => PostId(posts[1]) = "p1"}

HasId(coll, id) == \E i \in 1..Len(coll) : coll[i].id = id

EntryOfId(coll, id) == coll[CHOOSE i \in 1..Len(coll) : coll[i].id = id]

\* Collection.add(ids, embeddings, documents, metadatas): ids repeated in the
\* batch raise DuplicateIDError; an entry whose id the collection already
\* holds is ignored (logged, not raised), the others are appended
ChromaAdd(coll, entries) ==
    IF ~DistinctIds([i \in 1..Len(entries) |-> entries[i].id])
    THEN [raised |-> TRUE, coll |-> coll]
    ELSE [raised |-> FALSE,
          coll |-> coll \o SelectSeq(entries, LAMBDA e : ~HasId(coll, e.id))]

\* the entry add_post / add_posts hands to the collection
Entry(post_id, embedding, text, metadata) ==
    [id |-> post_id, embedding |-> embedding, document |-> text,
     metadata |-> _flatten_metadata(metadata)]

\* squared L2 distance, the collection's default metric
Distance(a, b) == (a[1] - b[1]) * (a[1] - b[1]) + (a[2] - b[2]) * (a[2] - b[2])

NearestInsertionOrder(coll, q, n, taken) ==
    [i \in 1..(IF n < Len(coll) THEN n ELSE Len(coll)) |-> i]

\* the positions of the n nearest entries, nearest first, ties in insertion order
RECURSIVE Nearest(_, _, _, _)
Nearest(coll, q, n, taken) ==
    LET left == (1..Len(coll)) \ taken
    IN IF n = 0 \/ left = {} THEN <<>>
       ELSE LET best == CHOOSE i \in left : \A j \in left :
                            \/ Distance(coll[i].embedding, q) < Distance(coll[j].embedding, q)
                            \/ /\ Distance(coll[i].embedding, q) = Distance(coll[j].embedding, q)
                               /\ i <= j
            IN <<best>> \o Nearest(coll, q, n - 1, taken \cup {best})

----------------------------------------------------------------------------
(* VectorStore *)

queryOuterList(coll, query_embedding, n_results) ==
    LET hits == Nearest(coll, query_embedding, n_results, {})
    IN [i \in 1..(IF Len(hits) > 0 THEN 1 ELSE 0) |->
            [id |-> coll[hits[i]].id,
             distance |-> Distance(coll[hits[i]].embedding, query_embedding),
             text |-> coll[hits[i]].document,
             metadata |-> _unflatten_metadata(coll[hits[i]].metadata)]]

\* VectorStore.query: the formatted results
query(coll, query_embedding, n_results) ==
    LET hits == Nearest(coll, query_embedding, n_results, {})
    IN [i \in 1..Len(hits) |->
            [id |-> coll[hits[i]].id,
             distance |-> Distance(coll[hits[i]].embedding, query_embedding),
             text |-> coll[hits[i]].document,
             metadata |-> _unflatten_metadata(coll[hits[i]].metadata)]]

\* VectorStore.get_by_id: the post, or None
get_by_id(coll, post_id) ==
    IF HasId(coll, post_id)
    THEN [id |-> post_id, text |-> EntryOfId(coll, post_id).document,
          metadata |-> _unflatten_metadata(EntryOfId(coll, post_id).metadata)]
    ELSE None

\* VectorStore.get_all
get_all(coll) ==
    [ids |-> [i \in 1..Len(coll) |-> coll[i].id],
     documents |-> [i \in 1..Len(coll) |-> coll[i].document],
     metadatas |-> [i \in 1..Len(coll) |-> _unflatten_metadata(coll[i].metadata)]]

\* VectorStore.count
count(coll) == Len(coll)

\* the entry index_posts builds from a post
IndexEntry(post) ==
    Entry(PostId(post), embed_post(post).embedding, embed_post(post).text, post)

IndexEntryOf == [post \in StorePosts |-> IndexEntry(post)]

\* the entries index_posts builds from the posts
IndexEntries(posts) == [i \in 1..Len(posts) |-> IndexEntryOf[posts[i]]]

\* VectorStore.add_post
AddPost ==
    \E post \in StorePosts :
        LET entries == IndexEntries(<<post>>)
            added == ChromaAdd(collection, entries)
        IN /\ collection' = added.coll
           /\ store_last' = [op |-> "add", entries |-> entries,
                             raised |-> added.raised]
           /\ UNCHANGED <<influencer_profile, codecVars, entryVars, clientVars, promptVars, voiceVars, startupVars, dispatchVars>>

\* VectorStore.add_posts, as RAGPipeline.index_posts calls it
IndexPosts ==
    \E posts \in PostFiles :
        LET entries == IndexEntries(posts)
            added == ChromaAdd(collection, entries)
        IN /\ collection' = added.coll
           /\ store_last' = [op |-> "add", entries |-> entries,
                             raised |-> added.raised]
           /\ UNCHANGED <<influencer_profile, codecVars, entryVars, clientVars, promptVars, voiceVars, startupVars, dispatchVars>>

QueryVectors == {<<0, 0>>, <<1, 1>>}
ResultCounts == {1, 3}

\* the read operations when the call on the collection may fail (`fails`):
\* query lets the error out; get_by_id and get_all catch it, print it and
\* return what they return for an absent post and for an empty collection
QueryCall(coll, query_embedding, n_results, fails) ==
    IF fails THEN [raised |-> TRUE, results |-> <<>>]
    ELSE [raised |-> FALSE, results |-> query(coll, query_embedding, n_results)]

GetByIdCall(coll, post_id, fails) ==
    [raised |-> FALSE, result |-> IF fails THEN None ELSE get_by_id(coll, post_id)]

GetAllCall(coll, fails) ==
    [raised |-> FALSE, result |-> IF fails THEN get_all(<<>>) ELSE get_all(coll)]

Query ==
    \E q \in QueryVectors, n \in ResultCounts, fails \in BOOLEAN :
        /\ store_last' = [op |-> "query", embedding |-> q, n_results |-> n,
                          failed |-> fails,
                          raised |-> QueryCall(collection, q, n, fails).raised,
                          results |-> QueryCall(collection, q, n, fails).results]
        /\ UNCHANGED <<collection, influencer_profile, codecVars, entryVars, clientVars, promptVars, voiceVars, startupVars, dispatchVars>>

GetById ==
    \E id \in PostIds, fails \in BOOLEAN :
        /\ store_last' = [op |-> "get_by_id", id |-> id, failed |-> fails,
                          raised |-> GetByIdCall(collection, id, fails).raised,
                          result |-> GetByIdCall(collection, id, fails).result]
        /\ UNCHANGED <<collection, influencer_profile, codecVars, entryVars, clientVars, promptVars, voiceVars, startupVars, dispatchVars>>

GetAll ==
    \E fails \in BOOLEAN :
    /\ store_last' = [op |-> "get_all", failed |-> fails,
                      raised |-> GetAllCall(collection, fails).raised,
                      result |-> GetAllCall(collection, fails).result]
    /\ UNCHANGED <<collection, influencer_profile, codecVars, entryVars, clientVars, promptVars, voiceVars, startupVars, dispatchVars>>

\* VectorStore.delete_all
DeleteAll ==
    /\ collection' = <<>>
    /\ store_last' = [op |-> "delete_all"]
    /\ UNCHANGED <<influencer_profile, codecVars, entryVars, clientVars, promptVars, voiceVars, startupVars, dispatchVars>>

----------------------------------------------------------------------------
(* RAGPipeline.load_data *)

\* a file as open() finds it: its content, or no file
File(content) == [t |-> "file", v |-> content]
Missing == [t |-> "missing", v |-> 0]

Profile(followers) ==
    [t |-> "dict", v |-> [username |-> "coach", followers |-> followers]]

Profiles == {Profile(0), Profile(1000)}

load_dataAlwaysIndexes(coll, profile, profile_file, posts_file, force_reload) ==
    IF profile_file.t = "missing"
    THEN [coll |-> coll, profile |-> profile, read |-> FALSE,
          raised |-> "FileNotFoundError"]
    ELSE IF posts_file.t = "missing"
    THEN [coll |-> coll, profile |-> profile_file, read |-> FALSE,
          raised |-> "FileNotFoundError"]
    ELSE [coll |-> ChromaAdd(coll, IndexEntries(posts_file.v)).coll,
          profile |-> profile_file, read |-> TRUE,
          raised |-> IF ChromaAdd(coll, IndexEntries(posts_file.v)).raised
                     THEN "DuplicateIDError" ELSE "none"]

\* load_data(force_reload), the files as they are when it reads them
load_data(coll, profile, profile_file, posts_file, force_reload) ==
    IF profile_file.t = "missing"
    THEN [coll |-> coll, profile |-> profile, read |-> FALSE,
          raised |-> "FileNotFoundError"]
    ELSE IF count(coll) > 0 /\ ~force_reload
    THEN [coll |-> coll, profile |-> profile_file, read |-> FALSE, raised |-> "none"]
    ELSE IF posts_file.t = "missing"
    THEN [coll |-> coll, profile |-> profile_file, read |-> FALSE,
          raised |-> "FileNotFoundError"]
    ELSE [coll |-> ChromaAdd(coll, IndexEntries(posts_file.v)).coll,
          profile |-> profile_file, read |-> TRUE,
          raised |-> IF ChromaAdd(coll, IndexEntries(posts_file.v)).raised
                     THEN "DuplicateIDError" ELSE "none"]

LoadData ==
    \E profile_file \in Profiles \cup {Missing},
       posts_file \in {File(posts) : posts \in PostFiles} \cup {Missing},
       force_reload \in BOOLEAN :
        LET done == load_data(collection, influencer_profile, profile_file,
                              posts_file, force_reload)
        IN /\ collection' = done.coll
           /\ influencer_profile' = done.profile
           /\ store_last' = [op |-> "load_data", force_reload |-> force_reload,
                             profile_file |-> profile_file,
                             posts |-> IF done.read THEN posts_file.v ELSE <<>>,
                             read |-> done.read, nonempty |-> count(collection) > 0,
                             raised |-> done.raised]
           /\ UNCHANGED <<codecVars, entryVars, clientVars, promptVars, voiceVars, startupVars, dispatchVars>>

InitStore == CodecIdle /\ StoreIdle /\ EntryIdle /\ ClientIdle /\ OthersIdle

NextStore ==
    \/ AddPost
    \/ IndexPosts
    \/ Query
    \/ GetById
    \/ GetAll
    \/ DeleteAll
    \/ LoadData

SpecStore == InitStore /\ [][NextStore]_vars

----------------------------------------------------------------------------
(* Modes: AgentMode, the API's ModeEnum, the CLI's mode names *)

AgentModes == {"content_analyst", "monetization", "strategy", "audience", "voice_impact"}

DEFAULT_MODE == "content_analyst"

\* api.ModeEnum: the values a ChatRequest accepts for `mode`
ModeEnum == {"content_analyst", "monetization", "strategy", "audience"}

\* the mode_mapping of the chat endpoints: mode_mapping.get(value, CONTENT_ANALYST)
ApiModeMapping(value) == IF value \in ModeEnum THEN value ELSE DEFAULT_MODE

\* the mode_mapping of the CLI command `mode <name>`
CliModeNames ==
    {"content", "analyst", "analysis", "monetization", "money", "strategy",
     "planning", "audience", "community"}

CliModeMapping(name) ==
    CASE name \in {"content", "analyst", "analysis"} -> "content_analyst"
      [] name \in {"monetization", "money"} -> "monetization"
      [] name \in {"strategy", "planning"} -> "strategy"
      [] name \in {"audience", "community"} -> "audience"

\* get_prompt_for_mode: the template of a mode
get_prompt_for_mode(mode) ==
    CASE mode = "content_analyst" -> "content_analyst"
      [] mode = "monetization" -> "monetization_advisor"
      [] mode = "strategy" -> "content_strategy"
      [] mode = "audience" -> "audience_insights"
      [] mode = "voice_impact" -> "voice_impact_summary"

----------------------------------------------------------------------------
(* Validation constants *)

MIN_POSTS == 1
MAX_POSTS == 10
DEFAULT_POSTS == 3

ValidFocus == {"general", "content", "growth", "engagement"}

\* questions.get(focus, questions["general"]) of InstagramCoachAgent.get_recommendations
AgentFocusQuestion(focus) == IF focus \in ValidFocus THEN focus ELSE "general"

----------------------------------------------------------------------------
(* generate_with_mode, as the entry points see it: how far it gets.       *)
(* `gen` is what the environment holds for the call: "ok", a missing      *)
(* prompt template, or a failing language-model request.                  *)

GenOutcomes == {"ok", "template_missing", "llm_error"}

generate_with_mode(mode, n_results, stream, gen) ==
    IF n_results < 1
    THEN \* the question is embedded, then collection.query refuses n_results
         [embedded |-> TRUE, requested |-> FALSE, raised |-> TRUE]
    ELSE IF gen = "template_missing"
    THEN [embedded |-> TRUE, requested |-> FALSE, raised |-> TRUE]
    ELSE IF stream
    THEN \* the generator is returned, not started
         [embedded |-> TRUE, requested |-> FALSE, raised |-> FALSE]
    ELSE [embedded |-> TRUE, requested |-> TRUE, raised |-> gen = "llm_error"]

\* RAGPipeline.generate_response(question, n_results, stream=False)
generate_response(n_results, gen) ==
    IF n_results < 1
    THEN [embedded |-> TRUE, requested |-> FALSE, raised |-> TRUE]
    ELSE [embedded |-> TRUE, requested |-> TRUE, raised |-> gen = "llm_error"]

\* InstagramCoachAgent.ask: the dispatcher, then the stream consumed to its end
\* (an error of the stream is caught and printed)
ask(active_mode, n_posts, stream, gen) ==
    LET result == generate_with_mode(active_mode, n_posts, stream, gen)
    IN [embedded |-> result.embedded,
        requested |-> result.requested \/ (stream /\ ~result.raised),
        raised |-> result.raised]

----------------------------------------------------------------------------
(* The entry points *)

ModeInputs == AgentModes \cup {"not_a_real_mode"}
PostCounts == {0, MIN_POSTS, DEFAULT_POSTS, MAX_POSTS, MAX_POSTS + 1}
FocusInputs == ValidFocus \cup {"not_a_focus"}

Call(entry, mode, n_posts, focus, status, mode_used, n_results, question, work) ==
    [entry |-> entry, mode |-> mode, n_posts |-> n_posts, focus |-> focus,
     status |-> status, mode_used |-> mode_used, n_results |-> n_results,
     question |-> question, embedded |-> work.embedded, requested |-> work.requested]

NoWork == [embedded |-> FALSE, requested |-> FALSE, raised |-> FALSE]

\* POST /api/chat and POST /api/chat/stream
ApiChat ==
    \E mode \in ModeInputs \cup {"null"}, n_posts \in PostCounts,
       stream \in BOOLEAN, gen \in GenOutcomes :
        LET entry == IF stream THEN "api_chat_stream" ELSE "api_chat"
            selected_mode == ApiModeMapping(mode)
            result == generate_with_mode(selected_mode, n_posts, stream, gen)
            work == [result EXCEPT !.requested = @ \/ (stream /\ ~result.raised)]
        IN /\ entry_last' =
                IF mode \notin ModeEnum \cup {"null"}
                   \/ n_posts < MIN_POSTS \/ n_posts > MAX_POSTS
                THEN \* the ChatRequest model refuses the body
                     Call(entry, mode, n_posts, "-", "422", "-", 0, "-", NoWork)
                ELSE IF ~agent_initialized
                THEN Call(entry, mode, n_posts, "-", "503", "-", 0, "-", NoWork)
                ELSE IF mode = "null"
                THEN \* request.mode.value on None
                     Call(entry, mode, n_posts, "-", "500", "-", 0, "-", NoWork)
                ELSE Call(entry, mode, n_posts, "-",
                          IF result.raised THEN "500" ELSE "200",
                          selected_mode, n_posts, "question", work)
           /\ UNCHANGED <<agent_initialized, current_mode, codecVars, storeVars, clientVars, promptVars, voiceVars, startupVars, dispatchVars>>

\* POST /api/recommendations/{focus}
ApiRecommendations ==
    \E focus \in FocusInputs, gen \in GenOutcomes :
        LET result == generate_with_mode("strategy", DEFAULT_POSTS, FALSE, gen)
        IN /\ entry_last' =
                IF ~agent_initialized
                THEN Call("api_recommendations", "-", 0, focus, "503", "-", 0, "-", NoWork)
                ELSE IF focus \notin ValidFocus
                THEN Call("api_recommendations", "-", 0, focus, "400", "-", 0, "-", NoWork)
                ELSE Call("api_recommendations", "-", 0, focus,
                          IF result.raised THEN "500" ELSE "200",
                          "strategy", DEFAULT_POSTS, focus, result)
           /\ UNCHANGED <<agent_initialized, current_mode, codecVars, storeVars, clientVars, promptVars, voiceVars, startupVars, dispatchVars>>

\* GET /api/top-posts
ApiTopPosts ==
    \E n \in PostCounts, gen \in GenOutcomes :
        LET result == generate_with_mode("content_analyst", n, FALSE, gen)
        IN /\ entry_last' =
                IF ~agent_initialized
                THEN Call("api_top_posts", "-", n, "-", "503", "-", 0, "-", NoWork)
                ELSE IF n < MIN_POSTS \/ n > MAX_POSTS
                THEN Call("api_top_posts", "-", n, "-", "400", "-", 0, "-", NoWork)
                ELSE Call("api_top_posts", "-", n, "-",
                          IF result.raised THEN "500" ELSE "200",
                          "content_analyst", n, "top_posts", result)
           /\ UNCHANGED <<agent_initialized, current_mode, codecVars, storeVars, clientVars, promptVars, voiceVars, startupVars, dispatchVars>>

\* the chat loop's command `mode <name>`
CliModeCommand ==
    \E name \in CliModeNames \cup ModeInputs :
        /\ agent_initialized
        /\ current_mode' = IF name \in CliModeNames THEN CliModeMapping(name)
                           ELSE current_mode
        /\ entry_last' =
                Call("cli_mode", name, 0, "-",
                     IF name \in CliModeNames THEN "mode_set" ELSE "mode_unknown",
                     current_mode', 0, "-", NoWork)
        /\ UNCHANGED <<agent_initialized, codecVars, storeVars, clientVars, promptVars, voiceVars, startupVars, dispatchVars>>

\* InstagramCoachAgent.set_mode
SetMode ==
    \E mode \in AgentModes :
        /\ agent_initialized
        /\ current_mode' = mode
        /\ entry_last' = Call("set_mode", mode, 0, "-", "mode_set", mode, 0, "-", NoWork)
        /\ UNCHANGED <<agent_initialized, codecVars, storeVars, clientVars, promptVars, voiceVars, startupVars, dispatchVars>>

\* InstagramCoachAgent.ask(question, n_posts, stream, mode); the chat loop
\* calls it with the defaults
AgentAsk ==
    \E mode \in AgentModes \cup {"None"}, n_posts \in PostCounts,
       stream \in BOOLEAN, gen \in GenOutcomes :
        LET active_mode == IF mode # "None" THEN mode ELSE current_mode
            done == ask(active_mode, n_posts, stream, gen)
        IN /\ agent_initialized
           /\ entry_last' =
                Call("ask", mode, n_posts, "-",
                     IF done.raised THEN "raised" ELSE "returned",
                     active_mode, n_posts, "question", done)
           /\ UNCHANGED <<agent_initialized, current_mode, codecVars, storeVars, clientVars, promptVars, voiceVars, startupVars, dispatchVars>>

\* InstagramCoachAgent.get_recommendations(focus)
AgentGetRecommendations ==
    \E focus \in FocusInputs, gen \in GenOutcomes :
        LET done == ask(current_mode, DEFAULT_POSTS, TRUE, gen)
        IN /\ agent_initialized
           /\ entry_last' =
                Call("get_recommendations", "-", 0, focus,
                     IF done.raised THEN "raised" ELSE "returned",
                     current_mode, DEFAULT_POSTS, AgentFocusQuestion(focus), done)
           /\ UNCHANGED <<agent_initialized, current_mode, codecVars, storeVars, clientVars, promptVars, voiceVars, startupVars, dispatchVars>>

\* InstagramCoachAgent.get_top_posts(n)
AgentGetTopPosts ==
    \E n \in PostCounts, gen \in GenOutcomes :
        LET done == generate_response(n, gen)
        IN /\ agent_initialized
           /\ entry_last' =
                Call("get_top_posts", "-", n, "-",
                     IF done.raised THEN "raised" ELSE "returned",
                     "-", n, "top_posts", done)
           /\ UNCHANGED <<agent_initialized, current_mode, codecVars, storeVars, clientVars, promptVars, voiceVars, startupVars, dispatchVars>>

\* the API starts with or without an agent (startup_event swallows the failure)
InitEntry ==
    /\ CodecIdle
    /\ StoreIdle
    /\ ClientIdle
    /\ OthersIdle
    /\ agent_initialized \in BOOLEAN
    /\ current_mode = DEFAULT_MODE
    /\ entry_last = NoCall

NextEntry ==
    \/ ApiChat
    \/ ApiRecommendations
    \/ ApiTopPosts
    \/ CliModeCommand
    \/ SetMode
    \/ AgentAsk
    \/ AgentGetRecommendations
    \/ AgentGetTopPosts

SpecEntry == InitEntry /\ [][NextEntry]_vars

----------------------------------------------------------------------------
(* FeatherlessClient: the session and its retry policy *)

RETRY_TOTAL == 3
STATUS_FORCELIST == {429, 500, 502, 503, 504}
\* the Retry of the session names no allowed_methods: urllib3 keeps its default
ALLOWED_METHODS == {"HEAD", "GET", "PUT", "DELETE", "OPTIONS", "TRACE"}
\* session.post
REQUEST_METHOD == "POST"

HTTP_OK == 200
UNAUTHORIZED == 401
TOO_MANY_REQUESTS == 429

\* what one attempt of the request can meet
Statuses == {HTTP_OK, UNAUTHORIZED, 404, TOO_MANY_REQUESTS, 503}
Answer200 == [type |-> "status", status |-> HTTP_OK]
AttemptOutcomes ==
    {[type |-> "status", status |-> s] : s \in Statuses}
    \cup {[type |-> "connect_error", status |-> 0], [type |-> "read_error", status |-> 0]}

\* Retry.is_retry: a status is retried for an allowed method only
IsRetry(method, status) == method \in ALLOWED_METHODS /\ status \in STATUS_FORCELIST

\* what the adapter does with the outcome of one attempt when `total` retries
\* are left: it sends the request again, raises, or hands the response over.
\* A connection that cannot be made is retried for every method; an error
\* while reading the answer is retried for an allowed method only.
AdapterStep(method, outcome, total) ==
    CASE outcome.type = "connect_error" ->
             IF total > 0 THEN "retry" ELSE "raise"
      [] outcome.type = "read_error" ->
             IF method \in ALLOWED_METHODS /\ total > 0 THEN "retry" ELSE "raise"
      [] OTHER ->
             IF IsRetry(method, outcome.status)
             THEN IF total > 0 THEN "retry" ELSE "raise"
             ELSE "response"

\* response.raise_for_status
RaiseForStatus(status) == status >= 400

Error(kind, msg, cause, status) ==
    [kind |-> kind, msg |-> msg, cause |-> cause, status |-> status]

HttpErrorOneKind(status) ==
    IF status = TOO_MANY_REQUESTS
    THEN Error("RuntimeError", "Rate limit exceeded", "status", status)
    ELSE Error("RuntimeError", "API error", "status", status)

\* except HTTPError: 401, 429, the others
HttpError(status) ==
    IF status = UNAUTHORIZED
    THEN Error("ValueError", "Invalid API key", "status", status)
    ELSE IF status = TOO_MANY_REQUESTS
    THEN Error("RuntimeError", "Rate limit exceeded", "status", status)
    ELSE Error("RuntimeError", "API error", "status", status)

\* except RequestException
NetworkError(cause, status) == Error("RuntimeError", "Network error", cause, status)

UnexpectedFormat == Error("RuntimeError", "Unexpected API response format", "format", HTTP_OK)

----------------------------------------------------------------------------
(* Completions and their two encodings *)

Fragments == {<<"Hello">>, <<" ">>, <<"world">>, <<>>}
Completions == UNION {[1..n -> Fragments] : n \in 0..MaxFrags}

RECURSIVE Concat(_)
Concat(frags) == IF frags = <<>> THEN <<>> ELSE Head(frags) \o Concat(Tail(frags))

\* the body of the non-streaming answer to a completion; the bodies of a 200
\* answer that holds no completion
NonStreamBody(completion) ==
    [choices |-> << [message |-> [content |-> Concat(completion)]] >>]
EmptyChoicesBody == [choices |-> <<>>]
NoChoicesBody == [error |-> <<"overloaded">>]

\* generate_response: the text of the first choice, or the format error
ExtractText(body) ==
    IF "choices" \in DOMAIN body /\ Len(body.choices) > 0
    THEN [raised |-> FALSE, text |-> body.choices[1].message.content]
    ELSE [raised |-> TRUE, text |-> <<>>]

\* the lines of a streaming body
Line(kind, has_choices, has_content, content, finish) ==
    [kind |-> kind, has_choices |-> has_choices, has_content |-> has_content,
     content |-> content, finish |-> finish]
Blank == Line("blank", FALSE, FALSE, <<>>, FALSE)
Done == Line("done", FALSE, FALSE, <<>>, FALSE)
KeepAlive == Line("malformed", FALSE, FALSE, <<>>, FALSE)
Drop == Line("drop", FALSE, FALSE, <<>>, FALSE)
DataChunk(content, finish) == Line("chunk", TRUE, TRUE, content, finish)
RoleChunk == Line("chunk", TRUE, FALSE, <<>>, FALSE)
FinishChunk == Line("chunk", TRUE, FALSE, <<>>, TRUE)
ErrorChunk == Line("chunk", FALSE, FALSE, <<>>, FALSE)
\* a chunk the server sends after the completion signal
Late == DataChunk(<<"late">>, FALSE)

RECURSIVE DataLines(_, _)
DataLines(completion, finish_on_last) ==
    IF completion = <<>> THEN <<>>
    ELSE <<DataChunk(Head(completion), finish_on_last /\ Len(completion) = 1), Blank>>
         \o DataLines(Tail(completion), finish_on_last)

\* the event stream of a completion: an optional preamble (the role chunk
\* and a keep-alive comment), one chunk per fragment, the finish_reason on
\* the last fragment or on a chunk of its own, then [DONE]
Wire(completion, preamble, finish_on_last) ==
    (IF preamble THEN <<RoleChunk, Blank, KeepAlive>> ELSE <<>>)
    \o DataLines(completion, finish_on_last)
    \o (IF finish_on_last /\ completion # <<>> THEN <<>> ELSE <<FinishChunk, Blank>>)
    \o <<Done>>

\* the event stream of a server that sends no finish_reason: [DONE] only
DoneOnly(completion) == DataLines(completion, FALSE) \o <<Done>>

\* the connection drops after `cut` lines
Dropped(wire, cut) == SubSeq(wire, 1, cut) \o <<Drop>>

Wires(completion) ==
    LET whole == {Wire(completion, p, f) : p \in BOOLEAN, f \in BOOLEAN}
    IN whole \cup UNION {{Dropped(w, cut) : cut \in 0..(Len(w) - 1)} : w \in whole}
       \cup {w \o <<Late>> : w \in whole}
       \cup {DoneOnly(completion), DoneOnly(completion) \o <<Late>>}

Continue == [yield |-> <<>>, stop |-> FALSE, raise |-> FALSE]

ProcessLineFinishFirst(line) ==
    CASE line.kind = "drop" -> [Continue EXCEPT !.raise = TRUE]
      [] line.kind = "blank" -> Continue
      [] line.kind = "done" -> [Continue EXCEPT !.stop = TRUE]
      [] line.kind = "malformed" -> Continue
      [] OTHER ->
             IF ~line.has_choices THEN Continue
             ELSE IF line.finish THEN [Continue EXCEPT !.stop = TRUE]
             ELSE [yield |-> IF line.has_content /\ line.content # <<>>
                             THEN <<line.content>> ELSE <<>>,
                   stop |-> FALSE, raise |-> FALSE]

ProcessLineIgnoresDone(line) ==
    CASE line.kind = "drop" -> [Continue EXCEPT !.raise = TRUE]
      [] line.kind = "blank" -> Continue
      [] line.kind = "done" -> Continue
      [] line.kind = "malformed" -> Continue
      [] OTHER ->
             IF ~line.has_choices THEN Continue
             ELSE [yield |-> IF line.has_content /\ line.content # <<>>
                             THEN <<line.content>> ELSE <<>>,
                   stop |-> line.finish, raise |-> FALSE]

ProcessLineDropEnds(line) ==
    CASE line.kind = "drop" -> [Continue EXCEPT !.stop = TRUE]
      [] line.kind = "blank" -> Continue
      [] line.kind = "done" -> [Continue EXCEPT !.stop = TRUE]
      [] line.kind = "malformed" -> Continue
      [] OTHER ->
             IF ~line.has_choices THEN Continue
             ELSE [yield |-> IF line.has_content /\ line.content # <<>>
                             THEN <<line.content>> ELSE <<>>,
                   stop |-> line.finish, raise |-> FALSE]

\* the body of the loop over response.iter_lines()
ProcessLine(line) ==
    CASE line.kind = "drop" -> [Continue EXCEPT !.raise = TRUE]
      [] line.kind = "blank" -> Continue
      [] line.kind = "done" -> [Continue EXCEPT !.stop = TRUE]
      [] line.kind = "malformed" -> Continue
      [] OTHER ->
             IF ~line.has_choices THEN Continue
             ELSE [yield |-> IF line.has_content /\ line.content # <<>>
                             THEN <<line.content>> ELSE <<>>,
                   stop |-> line.finish, raise |-> FALSE]

----------------------------------------------------------------------------
(* The consumers of a call: InstagramCoachAgent.ask, POST /api/chat and    *)
(* POST /api/chat/stream.                                                  *)

ClientCalls ==
    {[consumer |-> "ask", stream |-> TRUE], [consumer |-> "ask", stream |-> FALSE],
     [consumer |-> "api_chat", stream |-> FALSE],
     [consumer |-> "api_chat_stream", stream |-> TRUE]}

Question == <<"question">>
ErrorMarker == <<"[Error]">>

HistoryEntry(role, content) == [role |-> role, content |-> content]

ConsumerEndStoresOnRaise(call, text, error, history) ==
    LET failed == error # NoError
        stored == history \o <<HistoryEntry("user", call.question),
                               HistoryEntry("assistant", text)>>
    IN CASE call.consumer = "ask" /\ call.stream ->
                [result |-> [status |-> "returned", text |-> text], history |-> stored]
         [] call.consumer = "ask" /\ ~call.stream ->
                IF failed
                THEN [result |-> [status |-> "raised", text |-> <<>>], history |-> stored]
                ELSE [result |-> [status |-> "returned", text |-> text], history |-> stored]
         [] call.consumer = "api_chat" ->
                IF failed
                THEN [result |-> [status |-> "500", text |-> <<>>], history |-> history]
                ELSE [result |-> [status |-> "200", text |-> text], history |-> history]
         [] call.consumer = "api_chat_stream" ->
                [result |-> [status |-> "200",
                             text |-> IF failed THEN text \o ErrorMarker ELSE text],
                 history |-> history]

\* what the consumer hands to its caller when the call has ended with `text`
\* received and `error` raised by the client, and the history it leaves
ConsumerEnd(call, text, error, history) ==
    LET failed == error # NoError
        stored == history \o <<HistoryEntry("user", call.question),
                               HistoryEntry("assistant", text)>>
    IN CASE call.consumer = "ask" /\ call.stream ->
                \* the error is caught and printed; the text so far is kept
                [result |-> [status |-> "returned", text |-> text], history |-> stored]
         [] call.consumer = "ask" /\ ~call.stream ->
                IF failed
                THEN [result |-> [status |-> "raised", text |-> <<>>], history |-> history]
                ELSE [result |-> [status |-> "returned", text |-> text], history |-> stored]
         [] call.consumer = "api_chat" ->
                IF failed
                THEN [result |-> [status |-> "500", text |-> <<>>], history |-> history]
                ELSE [result |-> [status |-> "200", text |-> text], history |-> history]
         [] call.consumer = "api_chat_stream" ->
                [result |-> [status |-> "200",
                             text |-> IF failed THEN text \o ErrorMarker ELSE text],
                 history |-> history]

\* the call ends: the consumer's handling runs in the same step
End(text, error) ==
    LET done == ConsumerEnd(cl_call, text, error, conversation_history)
    IN /\ cl_pc' = "finished"
       /\ cl_error' = error
       /\ cl_result' = done.result
       /\ conversation_history' = done.history

\* a consumer calls generate_with_mode: a non-streaming call goes on to the
\* request, a streaming call returns the generator
\* (the model follows one call per conversation: a call starts on an empty
\* history, at the start or after `clear`; the client never reads the history)
StartCall ==
    /\ cl_pc \in {"idle", "finished"}
    /\ conversation_history = <<>>
    /\ \E c \in ClientCalls :
        LET result == generate_with_mode(DEFAULT_MODE, DEFAULT_POSTS, c.stream, "ok")
        IN /\ cl_call' = [consumer |-> c.consumer, stream |-> c.stream,
                          history_len |-> Len(conversation_history), answer |-> "-",
                          exhausted |-> FALSE, question |-> Question]
           /\ cl_pc' = IF result.requested THEN "posting" ELSE "created"
    /\ cl_outcomes' = <<>>
    /\ cl_total' = RETRY_TOTAL
    /\ cl_completion' = <<>>
    /\ cl_wire' = <<>>
    /\ cl_yielded' = <<>>
    /\ cl_error' = NoError
    /\ cl_result' = NoResult
    /\ UNCHANGED <<conversation_history, codecVars, storeVars, entryVars,
                   promptVars, voiceVars, startupVars, dispatchVars>>

\* the consumer pulls the first fragment: the generator starts
FirstPull ==
    /\ cl_pc = "created"
    /\ cl_pc' = "posting"
    /\ UNCHANGED <<cl_call, cl_outcomes, cl_total, cl_completion, cl_wire, cl_yielded,
                   cl_error, cl_result, conversation_history,
                   codecVars, storeVars, entryVars,
                   promptVars, voiceVars, startupVars, dispatchVars>>

\* an attempt fails and the adapter sends the request again
RetryRequest ==
    /\ cl_pc = "posting"
    /\ \E outcome \in AttemptOutcomes :
           /\ AdapterStep(REQUEST_METHOD, outcome, cl_total) = "retry"
           /\ cl_outcomes' = Append(cl_outcomes, outcome)
    /\ cl_total' = cl_total - 1
    /\ UNCHANGED <<cl_pc, cl_call, cl_completion, cl_wire, cl_yielded,
                   cl_error, cl_result, conversation_history,
                   codecVars, storeVars, entryVars,
                   promptVars, voiceVars, startupVars, dispatchVars>>

\* an attempt fails for good: the adapter raises, or raise_for_status does
RequestFails ==
    /\ cl_pc = "posting"
    /\ \E outcome \in AttemptOutcomes :
        LET step == AdapterStep(REQUEST_METHOD, outcome, cl_total)
        IN /\ \/ step = "raise"
              \/ step = "response" /\ RaiseForStatus(outcome.status)
           /\ End(<<>>, IF step = "raise"
                        THEN NetworkError(outcome.type, outcome.status)
                        ELSE HttpError(outcome.status))
           /\ cl_outcomes' = Append(cl_outcomes, outcome)
    /\ UNCHANGED <<cl_call, cl_total, cl_completion, cl_wire, cl_yielded,
                   codecVars, storeVars, entryVars,
                   promptVars, voiceVars, startupVars, dispatchVars>>

\* chat returns the body of a 200 answer; generate_response reads its text
ResponseBody ==
    /\ cl_pc = "posting"
    /\ ~cl_call.stream
    /\ AdapterStep(REQUEST_METHOD, Answer200, cl_total) = "response"
    /\ \/ \E completion \in Completions :
              LET got == ExtractText(NonStreamBody(completion))
              IN /\ cl_completion' = completion
                 /\ cl_call' = [cl_call EXCEPT !.answer = "completion"]
                 /\ End(got.text, IF got.raised THEN UnexpectedFormat ELSE NoError)
       \/ \E body \in {EmptyChoicesBody, NoChoicesBody} :
              LET got == ExtractText(body)
              IN /\ cl_completion' = <<>>
                 /\ cl_call' = [cl_call EXCEPT !.answer = "no_choices"]
                 /\ End(got.text, IF got.raised THEN UnexpectedFormat ELSE NoError)
    /\ cl_outcomes' = Append(cl_outcomes, Answer200)
    /\ UNCHANGED <<cl_total, cl_wire, cl_yielded,
                   codecVars, storeVars, entryVars,
                   promptVars, voiceVars, startupVars, dispatchVars>>

\* a 200 answer to the streaming request: its lines are read one at a time
ResponseStream ==
    /\ cl_pc = "posting"
    /\ cl_call.stream
    /\ AdapterStep(REQUEST_METHOD, Answer200, cl_total) = "response"
    /\ \/ \E completion \in Completions :
              \E wire \in Wires(completion) :
                  /\ cl_completion' = completion
                  /\ cl_call' = [cl_call EXCEPT !.answer = "completion"]
                  /\ cl_wire' = wire
       \/ /\ cl_completion' = <<>>
          /\ cl_call' = [cl_call EXCEPT !.answer = "no_choices"]
          /\ cl_wire' = <<ErrorChunk>>
    /\ cl_pc' = "reading"
    /\ cl_outcomes' = Append(cl_outcomes, Answer200)
    /\ UNCHANGED <<cl_total, cl_yielded, cl_error, cl_result,
                   conversation_history, codecVars, storeVars, entryVars,
                   promptVars, voiceVars, startupVars, dispatchVars>>

\* one turn of the loop over the lines; the consumer takes what is yielded
ReadLine ==
    /\ cl_pc = "reading"
    /\ cl_wire # <<>>
    /\ LET step == ProcessLine(Head(cl_wire))
           yielded == cl_yielded \o step.yield
       IN /\ cl_yielded' = yielded
          /\ cl_wire' = Tail(cl_wire)
          /\ IF step.raise
             THEN End(Concat(yielded), NetworkError("drop", HTTP_OK))
             ELSE IF step.stop
             THEN End(Concat(yielded), NoError)
             ELSE UNCHANGED <<cl_pc, cl_error, cl_result, conversation_history>>
    /\ UNCHANGED <<cl_call, cl_outcomes, cl_total, cl_completion,
                   codecVars, storeVars, entryVars,
                   promptVars, voiceVars, startupVars, dispatchVars>>

\* the body ends: the loop is over
EndOfBody ==
    /\ cl_pc = "reading"
    /\ cl_wire = <<>>
    /\ End(Concat(cl_yielded), NoError)
    /\ UNCHANGED <<cl_call, cl_outcomes, cl_total, cl_completion, cl_wire, cl_yielded,
                   codecVars, storeVars, entryVars,
                   promptVars, voiceVars, startupVars, dispatchVars>>

\* the holder of an ended generator pulls it again: StopIteration, the body
\* of the generator is not run again
PullExhausted ==
    /\ cl_pc = "finished"
    /\ cl_call.stream
    /\ ~cl_call.exhausted
    /\ cl_call' = [cl_call EXCEPT !.exhausted = TRUE]
    /\ UNCHANGED <<cl_pc, cl_outcomes, cl_total, cl_completion, cl_wire, cl_yielded,
                   cl_error, cl_result, conversation_history,
                   codecVars, storeVars, entryVars,
                   promptVars, voiceVars, startupVars, dispatchVars>>

\* the CLI command `clear`
ClearHistory ==
    /\ cl_pc \in {"idle", "finished"}
    /\ conversation_history # <<>>
    /\ conversation_history' = <<>>
    /\ UNCHANGED <<cl_pc, cl_call, cl_outcomes, cl_total, cl_completion, cl_wire,
                   cl_yielded, cl_error, cl_result, codecVars, storeVars, entryVars,
                   promptVars, voiceVars, startupVars, dispatchVars>>

InitClient ==
    /\ CodecIdle
    /\ StoreIdle
    /\ EntryIdle
    /\ ClientIdle
    /\ OthersIdle

NextClient ==
    \/ StartCall
    \/ FirstPull
    \/ RetryRequest
    \/ RequestFails
    \/ ResponseBody
    \/ ResponseStream
    \/ ReadLine
    \/ EndOfBody
    \/ PullExhausted
    \/ ClearHistory

SpecClient == InitClient /\ [][NextClient]_vars

----------------------------------------------------------------------------
(* The chat loop: a sequence of ask calls and `clear` commands, each ask   *)
(* taken as one step from the question to the history it leaves            *)

MaxAsks == 2

ChatQuestions == {<<"q0">>, <<"q1">>}
ChatTexts == {<<>>, <<"Hello">>, <<"Hello", " ", "world">>}

\* how an ask can go: generate_with_mode raises before the language model
\* is called, or the client gives `text` and raises `error` (text comes with
\* an error only when a stream breaks after some fragments)
AskOutcomes(stream) ==
    {[dispatch_raised |-> TRUE, text |-> <<>>, error |-> NoError]}
    \cup {[dispatch_raised |-> FALSE, text |-> t, error |-> NoError] : t \in ChatTexts}
    \cup {[dispatch_raised |-> FALSE, text |-> <<>>, error |-> HttpError(UNAUTHORIZED)]}
    \cup {[dispatch_raised |-> FALSE, text |-> t, error |-> NetworkError("drop", HTTP_OK)] :
              t \in IF stream THEN ChatTexts ELSE {<<>>}}

\* InstagramCoachAgent.ask
ChatAsk ==
    /\ cl_pc \in {"idle", "finished"}
    /\ Len(conversation_history) < 2 * MaxAsks
    /\ \E question \in ChatQuestions, stream \in BOOLEAN :
        \E outcome \in AskOutcomes(stream) :
            LET call == [consumer |-> "ask", stream |-> stream,
                         history_len |-> Len(conversation_history), answer |-> "-",
                         exhausted |-> FALSE, question |-> question]
                done == IF outcome.dispatch_raised
                        THEN [result |-> [status |-> "raised", text |-> <<>>],
                              history |-> conversation_history]
                        ELSE ConsumerEnd(call, outcome.text, outcome.error,
                                         conversation_history)
            IN /\ cl_call' = call
               /\ cl_error' = outcome.error
               /\ cl_result' = done.result
               /\ conversation_history' = done.history
    /\ cl_pc' = "finished"
    /\ UNCHANGED <<cl_outcomes, cl_total, cl_completion, cl_wire, cl_yielded,
                   codecVars, storeVars, entryVars,
                   promptVars, voiceVars, startupVars, dispatchVars>>

InitChat ==
    /\ CodecIdle
    /\ StoreIdle
    /\ EntryIdle
    /\ ClientIdle
    /\ OthersIdle

NextChat ==
    \/ ChatAsk
    \/ ClearHistory

SpecChat == InitChat /\ [][NextChat]_vars

----------------------------------------------------------------------------
(* generate_with_mode up to the language-model call: retrieval, the        *)
(* context block of the system prompt, the user prompt                     *)

Questions == {"q0", "q1"}

\* the embedding of a question: the model is a deterministic function of the text
embed_question(question) ==
    CASE question = "q0" -> <<0, 0>>
      [] question = "q1" -> <<1, 1>>

\* RAGPipeline.retrieve_relevant_posts
retrieve_relevant_posts(coll, question, n_results) ==
    query(coll, embed_question(question), n_results)

\* `influencer_profile or {}`
ProfileOrEmpty(profile) == IF profile.t = "none" THEN <<>> ELSE profile.v

\* the context generate_with_mode builds: the three keys are always set
Context(profile, posts, question) ==
    LET p == ProfileOrEmpty(profile)
    IN [user_data |->
            [username |-> PyStr(<<Get(p, "username", "N/A")>>),
             followers |-> PyInt(Get(p, "followers", 0)),
             engagement_rate |-> PyInt(Get(p, "avg_engagement_rate", 0)),
             niche |-> PyStr(<<Get(p, "niche", "N/A")>>)],
        posts_data |-> posts,
        question |-> question]

RECURSIVE SumSeq(_)
SumSeq(numbers) == IF numbers = <<>> THEN 0 ELSE Head(numbers) + SumSeq(Tail(numbers))

\* format(num / den, ".0f") for num >= 0, den > 0: the nearest integer, a
\* half going to the even one
Format0f(num, den) ==
    LET q == num \div den
        r == num % den
    IN IF 2 * r < den THEN q
       ELSE IF 2 * r > den THEN q + 1
       ELSE IF q % 2 = 0 THEN q ELSE q + 1

\* a line of the context block (the digit grouping of followers and the two
\* decimals of the engagement rate are not modelled)
ContextLine(section, label, value) == [section |-> section, label |-> label, value |-> value]
SectionHeader(section) == ContextLine(section, "##", None)

UserDataLines(context) ==
    IF "user_data" \notin DOMAIN context THEN <<>>
    ELSE LET user_data == context.user_data
         IN <<SectionHeader("user_data")>>
            \o (IF "username" \in DOMAIN user_data
                THEN <<ContextLine("user_data", "Username", user_data.username)>> ELSE <<>>)
            \o (IF "followers" \in DOMAIN user_data
                THEN <<ContextLine("user_data", "Followers", user_data.followers)>> ELSE <<>>)
            \o (IF "engagement_rate" \in DOMAIN user_data
                THEN <<ContextLine("user_data", "Taux d'engagement moyen",
                                   user_data.engagement_rate)>> ELSE <<>>)

\* context["metrics"]: its items in order, one line each
MetricsLines(context) ==
    IF "metrics" \notin DOMAIN context THEN <<>>
    ELSE <<SectionHeader("metrics")>>
         \o [i \in 1..Len(context.metrics) |->
                ContextLine("metrics", context.metrics[i].key, context.metrics[i].value)]

\* the aggregate of the posts: p.get(key, 0) on each retrieved record
PostsAverage(posts, key) ==
    Format0f(SumSeq([i \in 1..Len(posts) |-> Get(posts[i], key, 0)]), Len(posts))

PostsDataLines(context) ==
    IF "posts_data" \notin DOMAIN context THEN <<>>
    ELSE LET posts == context.posts_data
         IN <<SectionHeader("posts_data"),
              ContextLine("posts_data", "Nombre de posts analysés", PyInt(Len(posts)))>>
            \o (IF posts # <<>>
                THEN <<ContextLine("posts_data", "Moyenne de likes",
                                   PyInt(PostsAverage(posts, "likes"))),
                       ContextLine("posts_data", "Moyenne de commentaires",
                                   PyInt(PostsAverage(posts, "comments")))>>
                ELSE <<>>)

QuestionLines(context) ==
    IF "question" \notin DOMAIN context THEN <<>>
    ELSE <<SectionHeader("question"),
           ContextLine("question", "text", PyStr(<<context.question>>))>>

\* PromptManager.format_prompt_with_context: the context section appended
\* to the template
format_prompt_with_context(context) ==
    UserDataLines(context) \o MetricsLines(context)
    \o PostsDataLines(context) \o QuestionLines(context)

SENTINEL == <<"Aucun post pertinent trouvé.">>

\* one block of the posts section
PostBlock(i, post) ==
    LET metadata == Get(post, "metadata", <<>>)
        metrics == Get(metadata, K("metrics"), PyDict(<<>>)).v
    IN [number |-> i,
        caption |-> Get(metadata, K("caption"), PyStr(<<"N/A">>)).v,
        media_type |-> Get(metadata, K("media_type"), PyStr(<<"N/A">>)).v,
        timestamp |-> Get(metadata, K("timestamp"), PyStr(<<"N/A">>)).v,
        engagement_rate |-> Get(metrics, K("engagement_rate"), PyInt(0)).v,
        likes |-> Get(metrics, K("likes"), PyInt(0)).v,
        comments |-> Get(metrics, K("comments"), PyInt(0)).v,
        saves |-> Get(metrics, K("saves"), PyInt(0)).v,
        reach |-> Get(metrics, K("reach"), PyInt(0)).v,
        impressions |-> Get(metrics, K("impressions"), PyInt(0)).v,
        hashtags |-> JoinCommaSpace(Get(metadata, K("hashtags"), PyList(<<>>)).v)]

format_posts_for_promptFromZero(posts) ==
    IF posts = <<>> THEN [text |-> SENTINEL, blocks |-> <<>>]
    ELSE [text |-> <<>>, blocks |-> [i \in 1..Len(posts) |-> PostBlock(i - 1, posts[i])]]

\* RAGPipeline.format_posts_for_prompt: the sentinel, or the blocks joined
format_posts_for_prompt(posts) ==
    IF posts = <<>> THEN [text |-> SENTINEL, blocks |-> <<>>]
    ELSE [text |-> <<>>, blocks |-> [i \in 1..Len(posts) |-> PostBlock(i, posts[i])]]

\* RAGPipeline.build_user_prompt: the format "{...:,}" of the followers
\* raises ValueError on the default "N/A" of a profile without followers
build_user_prompt(profile, question, posts) ==
    IF "followers" \notin DOMAIN ProfileOrEmpty(profile)
    THEN [raised |-> TRUE, posts |-> [text |-> <<>>, blocks |-> <<>>]]
    ELSE [raised |-> FALSE, posts |-> format_posts_for_prompt(posts)]

\* retrieve_relevant_posts, as generate_with_mode calls it
Retrieve ==
    /\ pr_pc = "idle"
    /\ \E question \in Questions, n_results \in ResultCounts :
        /\ pr_call' = [question |-> question, n_results |-> n_results]
        /\ relevant_posts' = retrieve_relevant_posts(collection, question, n_results)
    /\ pr_pc' = "retrieved"
    /\ UNCHANGED <<system_prompt, user_prompt, codecVars, storeVars, entryVars,
                   clientVars, voiceVars, startupVars, dispatchVars>>

\* the context and the system prompt
BuildSystemPrompt ==
    /\ pr_pc = "retrieved"
    /\ system_prompt' = format_prompt_with_context(
                            Context(influencer_profile, relevant_posts, pr_call.question))
    /\ pr_pc' = "system"
    /\ UNCHANGED <<pr_call, relevant_posts, user_prompt, codecVars, storeVars,
                   entryVars, clientVars, voiceVars, startupVars, dispatchVars>>

\* the user prompt
BuildUserPrompt ==
    /\ pr_pc = "system"
    /\ LET built == build_user_prompt(influencer_profile, pr_call.question, relevant_posts)
       IN /\ user_prompt' = built.posts
          /\ pr_pc' = IF built.raised THEN "raised" ELSE "prompted"
    /\ UNCHANGED <<pr_call, relevant_posts, system_prompt, codecVars, storeVars,
                   entryVars, clientVars, voiceVars, startupVars, dispatchVars>>

\* the data is loaded before the agent answers
PromptLoadData ==
    /\ pr_pc = "idle"
    /\ LoadData

InitPrompt ==
    /\ CodecIdle
    /\ StoreIdle
    /\ EntryIdle
    /\ ClientIdle
    /\ OthersIdle

NextPrompt ==
    \/ PromptLoadData
    \/ Retrieve
    \/ BuildSystemPrompt
    \/ BuildUserPrompt

SpecPrompt == InitPrompt /\ [][NextPrompt]_vars

----------------------------------------------------------------------------
(* VoiceImpactAgent: the latest post, its impact metrics, the summary text *)
(* and the audio                                                           *)

Timestamps == {<<"2024-01-01">>, <<"2024-01-02">>}

\* the order of the timestamps as strings ("" is the default of a post
\* without timestamp)
StringRank(timestamp) ==
    CASE timestamp = <<>> -> 0
      [] timestamp = <<"2024-01-01">> -> 1
      [] timestamp = <<"2024-01-02">> -> 2

VoiceMetrics(likes, saves, engagement_rate) ==
    (K("likes") :> PyInt(likes)) @@ (K("comments") :> PyInt(0))
    @@ (K("shares") :> PyInt(0)) @@ (K("saves") :> PyInt(saves))
    @@ (K("reach") :> PyInt(1)) @@ (K("impressions") :> PyInt(1))
    @@ (K("engagement_rate") :> PyFloat(engagement_rate))

VoicePost(id, timestamp, metrics) ==
    (K("id") :> PyStr(<<id>>)) @@ (K("caption") :> PyStr(<<"c">>))
    @@ (K("media_type") :> PyStr(<<"photo">>))
    @@ (K("timestamp") :> PyStr(timestamp))
    @@ (K("metrics") :> PyDict(metrics))
    @@ (K("hashtags") :> PyList(<< <<"a">> >>))

\* the posts of the index: with and without interactions, with and without
\* engagement, of the same day or not
VoicePosts ==
    {VoicePost(id, timestamp, VoiceMetrics(likes, saves, engagement_rate)) :
        id \in PostIds, timestamp \in Timestamps, likes \in MetricValues,
        saves \in {0, 1}, engagement_rate \in {0, 2}}

\* the indexes: what index_posts leaves for zero, one or two posts of unique ids
VoiceCollections ==
    {<<>>}
    \cup {<<IndexEntry(post)>> : post \in VoicePosts}
    \cup {<<IndexEntry(first), IndexEntry(second)>> :
            first \in {post \in VoicePosts : PostId(post) = "p1"},
            second \in {post \in VoicePosts : PostId(post) = "p2"}}
    \cup {<<IndexEntry(second), IndexEntry(first)>> :
            first \in {post \in VoicePosts : PostId(post) = "p1"},
            second \in {post \in VoicePosts : PostId(post) = "p2"}}

\* get_latest_post: sorted(..., reverse=True) is stable, the first of the
\* posts of the greatest timestamp wins
get_latest_post(all_results) ==
    LET all_posts == all_results.metadatas
        rank(i) == StringRank(Get(all_posts[i], K("timestamp"), PyStr(<<>>)).v)
    IN IF all_posts = <<>> THEN None
       ELSE PyDict(all_posts[CHOOSE i \in 1..Len(all_posts) :
                                 \A j \in 1..Len(all_posts) :
                                     \/ rank(j) < rank(i)
                                     \/ rank(j) = rank(i) /\ i <= j])

\* `if not latest_post`
NoLatestPostNever(latest_post) == FALSE
NoLatestPost(latest_post) == latest_post.t = "none" \/ latest_post.v = <<>>

\* num / den, not evaluated; a zero den is a ZeroDivisionError
Quot(num, den) == [num |-> num, den |-> den]
Zero == Quot(0, 1)

SameValue(a, b) == a.t = b.t /\ (a.t = "none" \/ a.v = b.v)

MetricGet(post, key) ==
    Get(Get(post, K("metrics"), PyDict(<<>>)).v, K(key), PyInt(0)).v

virality_ratioUnguarded(reach, followers) == Quot(reach * 100, followers)

\* (reach / followers * 100) if followers > 0 else 0
virality_ratio(reach, followers) ==
    IF followers > 0 THEN Quot(reach * 100, followers) ELSE Zero

\* calculate_impact_metrics(post), on what get_all returns and the profile
calculate_impact_metrics(post, all_results, profile) ==
    LET likes == MetricGet(post, "likes")
        comments == MetricGet(post, "comments")
        shares == MetricGet(post, "shares")
        saves == MetricGet(post, "saves")
        reach == MetricGet(post, "reach")
        engagement_rate == MetricGet(post, "engagement_rate")
        all_posts == all_results.metadatas
        other_posts == SelectSeq(all_posts,
                           LAMBDA q : ~SameValue(Get(q, K("id"), None),
                                                 Get(post, K("id"), None)))
        Average(key) ==
            IF Len(all_posts) > 1
            THEN Quot(SumSeq([i \in 1..Len(other_posts) |-> MetricGet(other_posts[i], key)]),
                      Len(other_posts))
            ELSE Quot(MetricGet(post, key), 1)
        avg_engagement == Average("engagement_rate")
        \* ((rate - avg) / avg * 100) if avg > 0 else 0
        engagement_diff_pct ==
            IF avg_engagement.den > 0 /\ avg_engagement.num > 0
            THEN Quot((engagement_rate * avg_engagement.den - avg_engagement.num) * 100,
                      avg_engagement.num)
            ELSE Zero
        followers == Get(ProfileOrEmpty(profile), "followers", 1)
        total_interactions == likes + comments + shares + saves
        active_engagement_pct ==
            IF total_interactions > 0
            THEN Quot((comments + shares + saves) * 100, total_interactions)
            ELSE Zero
        quotients == <<avg_engagement, Average("likes"), Average("comments"),
                       Average("saves"), engagement_diff_pct,
                       virality_ratio(reach, followers), active_engagement_pct>>
    IN [raised |-> \E i \in 1..Len(quotients) : quotients[i].den = 0,
        likes |-> likes, comments |-> comments, shares |-> shares, saves |-> saves,
        reach |-> reach, engagement_rate |-> engagement_rate,
        followers |-> followers, total_interactions |-> total_interactions,
        avg_engagement |-> avg_engagement,
        engagement_diff_pct |-> engagement_diff_pct,
        virality_ratio |-> virality_ratio(reach, followers),
        active_engagement_pct |-> active_engagement_pct]

\* the text of the language model, and _clean_text_for_speech: the markdown
\* marks are removed
SummaryTexts == {<<"**", "Bravo", "**">>, <<"Bravo">>}
clean_text_for_speech(text) ==
    SelectSeq(text, LAMBDA token : token \notin {"**", "__", "*", "# ", "- "})

Request(to, outcome) == [to |-> to, outcome |-> outcome]
Raised(error) == [status |-> "raised", error |-> error]

\* generate_voice_summary: the latest post, or the error when there is none
VoiceLatest ==
    /\ vo_pc = "idle"
    /\ \E fails \in BOOLEAN :
        LET latest_post == get_latest_post(GetAllCall(collection, fails).result)
        IN IF NoLatestPost(latest_post)
           THEN /\ vo_pc' = "raised"
                /\ vo_result' = Raised("ValueError")
                /\ UNCHANGED vo_summary
           ELSE /\ vo_pc' = "post"
                /\ vo_summary' = [NoSummary EXCEPT !.stage = "post", !.post = latest_post]
                /\ UNCHANGED vo_result
    /\ UNCHANGED <<vo_requests, codecVars, storeVars, entryVars, clientVars,
                   promptVars, startupVars, dispatchVars>>

\* generate_voice_summary: the impact metrics
VoiceMetricsStep ==
    /\ vo_pc = "post"
    /\ vo_summary.post.t = "dict"
    /\ \E fails \in BOOLEAN :
        LET impact_metrics == calculate_impact_metrics(
                                  vo_summary.post.v, GetAllCall(collection, fails).result,
                                  influencer_profile)
        IN IF impact_metrics.raised
           THEN /\ vo_pc' = "raised"
                /\ vo_result' = Raised("ZeroDivisionError")
                /\ UNCHANGED vo_summary
           ELSE /\ vo_pc' = "metrics"
                /\ vo_summary' = [vo_summary EXCEPT !.stage = "metrics",
                                                    !.metrics = impact_metrics]
                /\ UNCHANGED vo_result
    /\ UNCHANGED <<vo_requests, codecVars, storeVars, entryVars, clientVars,
                   promptVars, startupVars, dispatchVars>>

\* generate_voice_summary: the request to the language model, the text cleaned
VoiceText ==
    /\ vo_pc = "metrics"
    /\ \/ /\ vo_requests' = Append(vo_requests, Request("llm", "error"))
          /\ vo_pc' = "raised"
          /\ vo_result' = Raised("RuntimeError")
          /\ UNCHANGED vo_summary
       \/ \E text \in SummaryTexts :
          /\ vo_requests' = Append(vo_requests, Request("llm", "ok"))
          /\ vo_pc' = "summarised"
          /\ vo_summary' = [vo_summary EXCEPT !.stage = "text", !.text = text,
                                              !.clean_text = clean_text_for_speech(text)]
          /\ UNCHANGED vo_result
    /\ UNCHANGED <<codecVars, storeVars, entryVars, clientVars, promptVars, startupVars, dispatchVars>>

\* generate_voice_impact_summary after the text: generate_audio, then the
\* audio path added to the summary data
VoiceAudio ==
    /\ vo_pc = "summarised"
    /\ \E tts \in {"ok", "http_error", "error"} :
        /\ vo_requests' = Append(vo_requests, Request("tts", tts))
        /\ IF tts = "ok"
           THEN /\ vo_pc' = "done"
                /\ vo_result' = [status |-> "returned", error |-> "-",
                                 text |-> vo_summary.text,
                                 clean_text |-> vo_summary.clean_text,
                                 metrics |-> vo_summary.metrics,
                                 audio_path |-> "voice_summary.mp3"]
           ELSE /\ vo_pc' = "raised"
                /\ vo_result' = Raised("RuntimeError")
    /\ UNCHANGED <<vo_summary, codecVars, storeVars, entryVars, clientVars,
                   promptVars, startupVars, dispatchVars>>

VoiceProfiles == Profiles \cup {None}

InitVoice ==
    /\ CodecIdle
    /\ EntryIdle
    /\ ClientIdle
    /\ OthersIdle
    /\ collection \in VoiceCollections
    /\ influencer_profile \in VoiceProfiles
    /\ store_last = [op |-> "init"]

NextVoice ==
    \/ VoiceLatest
    \/ VoiceMetricsStep
    \/ VoiceText
    \/ VoiceAudio

SpecVoice == InitVoice /\ [][NextVoice]_vars

----------------------------------------------------------------------------
(* The construction of the pipeline components and the embedding dimension *)

\* config.embedding.dimension
CONFIG_DIMENSION == 384

\* the models EMBEDDING_MODEL can name, and the dimension of their vectors
EmbeddingModels ==
    {"all-MiniLM-L6-v2", "all-MiniLM-L12-v2", "paraphrase-MiniLM-L3-v2",
     "all-mpnet-base-v2", "all-distilroberta-v1", "bge-large-en"}

ModelDimension(model_name) ==
    CASE model_name \in {"all-MiniLM-L6-v2", "all-MiniLM-L12-v2",
                         "paraphrase-MiniLM-L3-v2"} -> CONFIG_DIMENSION
      [] model_name \in {"all-mpnet-base-v2", "all-distilroberta-v1"} -> 768
      [] model_name = "bge-large-en" -> 1024

\* the dimension of the persisted collection: 0 while it holds no embedding
IndexDimensions == {0} \cup {ModelDimension(m) : m \in EmbeddingModels}

Dims(model_name, index) ==
    [configured |-> CONFIG_DIMENSION, model_name |-> model_name,
     model |-> ModelDimension(model_name), index |-> index]

\* the collection's check of an embedding handed to add or query
DimensionAccepted(index, embedding_dimension) ==
    index = 0 \/ index = embedding_dimension

\* EmbeddingGenerator.__init__, VectorStore.__init__, RAGPipeline.__init__:
\* the model is loaded and the collection opened; the dimensions are not
\* compared (config.embedding.dimension is printed only)
Construct ==
    /\ st_pc = "off"
    /\ \E model_loads \in BOOLEAN :
           st_pc' = IF model_loads THEN "started" ELSE "failed"
    /\ UNCHANGED <<st_dims, st_last, codecVars, storeVars, entryVars, clientVars,
                   promptVars, voiceVars, dispatchVars>>

\* an add after the start: the first embedding sets the dimension of the index
AddAfterStart ==
    /\ st_pc = "started"
    /\ IF DimensionAccepted(st_dims.index, st_dims.model)
       THEN /\ st_dims' = [st_dims EXCEPT !.index = st_dims.model]
            /\ st_last' = [op |-> "add", raised |-> FALSE]
       ELSE /\ st_last' = [op |-> "add", raised |-> TRUE]
            /\ UNCHANGED st_dims
    /\ UNCHANGED <<st_pc, codecVars, storeVars, entryVars, clientVars,
                   promptVars, voiceVars, dispatchVars>>

\* a query after the start
QueryAfterStart ==
    /\ st_pc = "started"
    /\ st_last' = [op |-> "query",
                   raised |-> ~DimensionAccepted(st_dims.index, st_dims.model)]
    /\ UNCHANGED <<st_pc, st_dims, codecVars, storeVars, entryVars, clientVars,
                   promptVars, voiceVars, dispatchVars>>

\* delete_all after the start: the collection is created anew
DeleteAllAfterStart ==
    /\ st_pc = "started"
    /\ st_dims' = [st_dims EXCEPT !.index = 0]
    /\ st_last' = [op |-> "delete_all", raised |-> FALSE]
    /\ UNCHANGED <<st_pc, codecVars, storeVars, entryVars, clientVars,
                   promptVars, voiceVars, dispatchVars>>

InitStartup ==
    /\ CodecIdle
    /\ StoreIdle
    /\ EntryIdle
    /\ ClientIdle
    /\ PromptIdle
    /\ VoiceIdle
    /\ DispatchIdle
    /\ st_pc = "off"
    /\ st_dims \in {Dims(m, index) : m \in EmbeddingModels, index \in IndexDimensions}
    /\ st_last = [op |-> "none"]

NextStartup ==
    \/ Construct
    \/ AddAfterStart
    \/ QueryAfterStart
    \/ DeleteAllAfterStart

SpecStartup == InitStartup /\ [][NextStartup]_vars

----------------------------------------------------------------------------
(* PromptManager: the template files and the cache of their texts *)

\* the modes the calls of this part use, and their prompt types
DispatchModes == {"content_analyst", "strategy"}
PromptTypes == {get_prompt_for_mode(m) : m \in DispatchModes}

TemplateTexts == {"template v1", "template v2"}
TemplateFiles == {File(t) : t \in TemplateTexts} \cup {Missing}

\* what the cache holds for a prompt type
CacheEntry(cache, prompt_type) ==
    IF prompt_type \in DOMAIN cache THEN File(cache[prompt_type]) ELSE Missing

load_promptNoCache(cache, files, prompt_type, force_reload) ==
    IF prompt_type \notin DOMAIN files
    THEN [raised |-> "ValueError", text |-> "", cache |-> cache, read |-> FALSE]
    ELSE IF files[prompt_type].t = "missing"
    THEN [raised |-> "FileNotFoundError", text |-> "", cache |-> cache, read |-> FALSE]
    ELSE [raised |-> "none", text |-> files[prompt_type].v,
          cache |-> [t \in DOMAIN cache \cup {prompt_type} |->
                        IF t = prompt_type THEN files[prompt_type].v ELSE cache[t]],
          read |-> TRUE]

load_promptEmptyDefault(cache, files, prompt_type, force_reload) ==
    IF ~force_reload /\ prompt_type \in DOMAIN cache
    THEN [raised |-> "none", text |-> cache[prompt_type], cache |-> cache, read |-> FALSE]
    ELSE IF prompt_type \notin DOMAIN files
    THEN [raised |-> "ValueError", text |-> "", cache |-> cache, read |-> FALSE]
    ELSE IF files[prompt_type].t = "missing"
    THEN [raised |-> "none", text |-> "", cache |-> cache, read |-> FALSE]
    ELSE [raised |-> "none", text |-> files[prompt_type].v,
          cache |-> [t \in DOMAIN cache \cup {prompt_type} |->
                        IF t = prompt_type THEN files[prompt_type].v ELSE cache[t]],
          read |-> TRUE]

\* PromptManager.load_prompt: the cached text, or the file read and cached
load_prompt(cache, files, prompt_type, force_reload) ==
    IF ~force_reload /\ prompt_type \in DOMAIN cache
    THEN [raised |-> "none", text |-> cache[prompt_type], cache |-> cache, read |-> FALSE]
    ELSE IF prompt_type \notin DOMAIN files
    THEN [raised |-> "ValueError", text |-> "", cache |-> cache, read |-> FALSE]
    ELSE IF files[prompt_type].t = "missing"
    THEN [raised |-> "FileNotFoundError", text |-> "", cache |-> cache, read |-> FALSE]
    ELSE [raised |-> "none", text |-> files[prompt_type].v,
          cache |-> [t \in DOMAIN cache \cup {prompt_type} |->
                        IF t = prompt_type THEN files[prompt_type].v ELSE cache[t]],
          read |-> TRUE]

\* PromptManager.get_all_prompts: every type is loaded, a missing file is
\* skipped; the cache it leaves
get_all_prompts(cache, files) ==
    [t \in {u \in DOMAIN files : load_prompt(cache, files, u, FALSE).raised = "none"} |->
        load_prompt(cache, files, t, FALSE).text]

\* PromptManager.reload_all_prompts: the cache is cleared first
reload_all_prompts(cache, files) == get_all_prompts(<<>>, files)

\* the record of a load: what the cache and the directory held when it ran
LastLoad(cache, files, prompt_type, force_reload) ==
    LET loaded == load_prompt(cache, files, prompt_type, force_reload)
    IN [op |-> "load_prompt", prompt_type |-> prompt_type, force_reload |-> force_reload,
        cached |-> CacheEntry(cache, prompt_type), file |-> files[prompt_type],
        raised |-> loaded.raised, text |-> loaded.text, read |-> loaded.read]

----------------------------------------------------------------------------
(* The sampling parameters of the two request payloads *)

\* a value the caller passed, and a value of config.llm
Arg(name) == [t |-> "arg", v |-> name]
ConfigValue(name) == [t |-> "config", v |-> name]

\* the keyword arguments both dispatchers hand to the client
Kwargs(call) == [temperature |-> call.temperature, max_tokens |-> call.max_tokens]

\* FeatherlessClient.chat: the payload
ChatPayload(temperature, max_tokens, stream) ==
    [temperature |-> IF temperature.t # "none" THEN temperature
                     ELSE ConfigValue("temperature"),
     max_tokens |-> IF max_tokens.t # "none" THEN max_tokens
                    ELSE ConfigValue("max_tokens"),
     stream |-> stream]

\* FeatherlessClient.generate_response_stream: the payload
StreamPayload(kwargs) ==
    [temperature |-> Get(kwargs, "temperature", ConfigValue("temperature")),
     max_tokens |-> Get(kwargs, "max_tokens", ConfigValue("max_tokens")),
     stream |-> TRUE]

RequestsAtCallEager(stream, kwargs) ==
    IF stream THEN <<StreamPayload(kwargs)>>
    ELSE <<ChatPayload(kwargs.temperature, kwargs.max_tokens, FALSE)>>

\* the requests sent when the dispatcher has called the client: the
\* non-streaming path posts, the streaming path creates the generator only
RequestsAtCall(stream, kwargs) ==
    IF stream THEN <<>>
    ELSE <<ChatPayload(kwargs.temperature, kwargs.max_tokens, FALSE)>>

----------------------------------------------------------------------------
(* generate_with_mode and RAGPipeline.generate_response, stage by stage *)

STAGES ==
    <<"mode_selected", "posts_retrieved", "prompts_built", "completion_requested",
      "result_assembled">>

SamplingInputs ==
    {[temperature |-> None, max_tokens |-> None],
     [temperature |-> Arg("temperature"), max_tokens |-> Arg("max_tokens")]}

DispatchCalls ==
    {[entry |-> "generate_with_mode", mode |-> m, question |-> "q0",
      n_results |-> DEFAULT_POSTS, stream |-> st,
      temperature |-> sa.temperature, max_tokens |-> sa.max_tokens] :
        m \in DispatchModes, st \in BOOLEAN, sa \in SamplingInputs}
    \cup {[entry |-> "generate_response", mode |-> "-", question |-> "q0",
           n_results |-> DEFAULT_POSTS, stream |-> st,
           temperature |-> sa.temperature, max_tokens |-> sa.max_tokens] :
             st \in BOOLEAN, sa \in SamplingInputs}

\* RAGPipeline.build_system_prompt
BUILTIN_PROMPT == "Tu es un coach Instagram"

GmRaised(error) == [status |-> "raised", error |-> error]

GmResultWithoutQuestion(call, locals, answer) ==
    [status |-> "returned", mode |-> call.mode, answer |-> answer,
     relevant_posts |-> locals.relevant_posts, question |-> "-"]

\* the dict the dispatcher returns
GmResult(call, locals, answer) ==
    [status |-> "returned", mode |-> call.mode, answer |-> answer,
     relevant_posts |-> locals.relevant_posts, question |-> call.question]

\* no call is under way
Resting == gm_pc \in {"idle", "returned", "pulled", "raised"}

\* a caller calls the dispatcher: the locals of the call are new
GmCall ==
    /\ Resting
    /\ \E call \in DispatchCalls : gm_call' = call
    /\ gm_pc' = "selected"
    /\ gm_locals' = NoLocals
    /\ gm_stages' = <<"mode_selected">>
    /\ gm_requests' = <<>>
    /\ gm_result' = NoGmResult
    /\ UNCHANGED <<prompts_cache, prompt_files, pm_last, codecVars, storeVars, entryVars,
                   clientVars, promptVars, voiceVars, startupVars>>

\* retrieve_relevant_posts; an error of the embedding or of the query propagates
GmRetrieve ==
    /\ gm_pc = "selected"
    /\ \E fails \in BOOLEAN :
        IF fails
        THEN /\ gm_pc' = "raised"
             /\ gm_result' = GmRaised("RetrievalError")
             /\ UNCHANGED <<gm_locals, gm_stages>>
        ELSE /\ gm_pc' = "retrieved"
             /\ gm_locals' = [gm_locals EXCEPT !.relevant_posts =
                                 retrieve_relevant_posts(collection, gm_call.question,
                                                         gm_call.n_results)]
             /\ gm_stages' = Append(gm_stages, "posts_retrieved")
             /\ UNCHANGED gm_result
    /\ UNCHANGED <<prompts_cache, prompt_files, pm_last, gm_call, gm_requests,
                   codecVars, storeVars, entryVars,
                   clientVars, promptVars, voiceVars, startupVars>>

\* the system prompt: the template of the mode with the context appended,
\* or the built-in text of RAGPipeline.build_system_prompt
GmSystemPrompt ==
    /\ gm_pc = "retrieved"
    /\ IF gm_call.entry = "generate_response"
       THEN /\ gm_locals' = [gm_locals EXCEPT
                                !.system_prompt = [template |-> BUILTIN_PROMPT,
                                                   context |-> <<>>]]
            /\ gm_pc' = "system"
            /\ UNCHANGED <<prompts_cache, pm_last, gm_result>>
       ELSE LET prompt_type == get_prompt_for_mode(gm_call.mode)
                loaded == load_prompt(prompts_cache, prompt_files, prompt_type, FALSE)
                last == LastLoad(prompts_cache, prompt_files, prompt_type, FALSE)
            IN /\ prompts_cache' = loaded.cache
               /\ UNCHANGED pm_last
               /\ IF loaded.raised # "none"
                  THEN /\ gm_pc' = "raised"
                       /\ gm_result' = GmRaised(loaded.raised)
                       /\ gm_locals' = [gm_locals EXCEPT !.loaded = last]
                  ELSE /\ gm_pc' = "system"
                       /\ gm_locals' =
                              [gm_locals EXCEPT
                                  !.loaded = last,
                                  !.system_prompt =
                                      [template |-> loaded.text,
                                       context |-> format_prompt_with_context(
                                           Context(influencer_profile,
                                                   gm_locals.relevant_posts,
                                                   gm_call.question))]]
                       /\ UNCHANGED gm_result
    /\ UNCHANGED <<prompt_files, gm_call, gm_stages, gm_requests,
                   codecVars, storeVars, entryVars,
                   clientVars, promptVars, voiceVars, startupVars>>

\* build_user_prompt
GmUserPrompt ==
    /\ gm_pc = "system"
    /\ LET built == build_user_prompt(influencer_profile, gm_call.question,
                                      gm_locals.relevant_posts)
       IN IF built.raised
          THEN /\ gm_pc' = "raised"
               /\ gm_result' = GmRaised("ValueError")
               /\ UNCHANGED <<gm_locals, gm_stages>>
          ELSE /\ gm_pc' = "prompted"
               /\ gm_locals' = [gm_locals EXCEPT !.user_prompt = built.posts]
               /\ gm_stages' = Append(gm_stages, "prompts_built")
               /\ UNCHANGED gm_result
    /\ UNCHANGED <<prompts_cache, prompt_files, pm_last, gm_call, gm_requests,
                   codecVars, storeVars, entryVars,
                   clientVars, promptVars, voiceVars, startupVars>>

\* the client is called: generate_response posts the request and returns
\* the text or raises, generate_response_stream returns a generator
GmComplete ==
    /\ gm_pc = "prompted"
    /\ gm_requests' = RequestsAtCall(gm_call.stream, Kwargs(gm_call))
    /\ gm_stages' = Append(gm_stages, "completion_requested")
    /\ IF gm_call.stream
       THEN /\ gm_pc' = "requested"
            /\ gm_result' = [status |-> "pending", answer |-> [kind |-> "stream", text |-> <<>>]]
       ELSE \E ok \in BOOLEAN :
            IF ok
            THEN /\ gm_pc' = "requested"
                 /\ gm_result' = [status |-> "pending",
                                  answer |-> [kind |-> "response", text |-> <<"answer">>]]
            ELSE /\ gm_pc' = "raised"
                 /\ gm_result' = GmRaised("RuntimeError")
    /\ UNCHANGED <<prompts_cache, prompt_files, pm_last, gm_call, gm_locals,
                   codecVars, storeVars, entryVars,
                   clientVars, promptVars, voiceVars, startupVars>>

\* the result dict is returned
GmAssemble ==
    /\ gm_pc = "requested"
    /\ gm_pc' = "returned"
    /\ gm_result' = GmResult(gm_call, gm_locals, gm_result.answer)
    /\ gm_stages' = Append(gm_stages, "result_assembled")
    /\ UNCHANGED <<prompts_cache, prompt_files, pm_last, gm_call, gm_locals, gm_requests,
                   codecVars, storeVars, entryVars,
                   clientVars, promptVars, voiceVars, startupVars>>

\* the caller pulls the first fragment of the stream: the generator starts
\* and posts the request
GmPull ==
    /\ gm_pc = "returned"
    /\ gm_call.stream
    /\ gm_pc' = "pulled"
    /\ gm_requests' = Append(gm_requests, StreamPayload(Kwargs(gm_call)))
    /\ UNCHANGED <<prompts_cache, prompt_files, pm_last, gm_call, gm_locals, gm_stages,
                   gm_result, codecVars, storeVars, entryVars,
                   clientVars, promptVars, voiceVars, startupVars>>

\* load_prompt called on the manager itself
LoadPrompt ==
    /\ gm_pc = "idle"
    /\ \E prompt_type \in PromptTypes, force_reload \in BOOLEAN :
        /\ prompts_cache' =
               load_prompt(prompts_cache, prompt_files, prompt_type, force_reload).cache
        /\ pm_last' = LastLoad(prompts_cache, prompt_files, prompt_type, force_reload)
    /\ UNCHANGED <<prompt_files, gm_pc, gm_call, gm_locals, gm_stages, gm_requests,
                   gm_result, codecVars, storeVars, entryVars,
                   clientVars, promptVars, voiceVars, startupVars>>

ReloadAllPrompts ==
    /\ gm_pc = "idle"
    /\ prompts_cache' = reload_all_prompts(prompts_cache, prompt_files)
    /\ pm_last' = [op |-> "reload_all_prompts", files |-> prompt_files]
    /\ UNCHANGED <<prompt_files, gm_pc, gm_call, gm_locals, gm_stages, gm_requests,
                   gm_result, codecVars, storeVars, entryVars,
                   clientVars, promptVars, voiceVars, startupVars>>

\* a template file is written, replaced or removed between two calls
TemplateFileChange ==
    /\ Resting
    /\ \E prompt_type \in PromptTypes, file \in TemplateFiles :
        /\ file # prompt_files[prompt_type]
        /\ prompt_files' = [prompt_files EXCEPT ![prompt_type] = file]
    /\ UNCHANGED <<prompts_cache, pm_last, gm_pc, gm_call, gm_locals, gm_stages,
                   gm_requests, gm_result, codecVars, storeVars, entryVars,
                   clientVars, promptVars, voiceVars, startupVars>>

\* the indexes the calls run on: empty, or holding one post
DispatchCollections ==
    {<<>>, IndexEntries(<<Post("p1", MaxMetric, 0, << <<"a">> >>, PyStr(<<"u">>))>>)}

InitDispatch ==
    /\ CodecIdle
    /\ EntryIdle
    /\ ClientIdle
    /\ PromptIdle
    /\ VoiceIdle
    /\ StartupIdle
    /\ collection \in DispatchCollections
    /\ influencer_profile \in {None, Profile(1000)}
    /\ store_last = [op |-> "init"]
    /\ prompts_cache = <<>>
    /\ prompt_files \in [PromptTypes -> TemplateFiles]
    /\ pm_last = [op |-> "none"]
    /\ gm_pc = "idle"
    /\ gm_call = NoGmCall
    /\ gm_locals = NoLocals
    /\ gm_stages = <<>>
    /\ gm_requests = <<>>
    /\ gm_result = NoGmResult

NextDispatch ==
    \/ GmCall
    \/ GmRetrieve
    \/ GmSystemPrompt
    \/ GmUserPrompt
    \/ GmComplete
    \/ GmAssemble
    \/ GmPull
    \/ TemplateFileChange

SpecDispatch == InitDispatch /\ [][NextDispatch]_vars

\* the manager alone: loads, reloads and changes of the files
InitManager ==
    /\ CodecIdle
    /\ StoreIdle
    /\ EntryIdle
    /\ ClientIdle
    /\ PromptIdle
    /\ VoiceIdle
    /\ StartupIdle
    /\ prompts_cache = <<>>
    /\ prompt_files \in [PromptTypes -> TemplateFiles]
    /\ pm_last = [op |-> "none"]
    /\ gm_pc = "idle"
    /\ gm_call = NoGmCall
    /\ gm_locals = NoLocals
    /\ gm_stages = <<>>
    /\ gm_requests = <<>>
    /\ gm_result = NoGmResult

NextManager ==
    \/ LoadPrompt
    \/ ReloadAllPrompts
    \/ TemplateFileChange

SpecManager == InitManager /\ [][NextManager]_vars

----------------------------------------------------------------------------
\* the hashtags lists that the comma convention cannot carry: a hashtag that
\* holds a comma, and the list of one empty string
HasComma(tag) == \E i \in 1..Len(tag) : tag[i] = ","
Unjoinable(hashtags) ==
    \/ \E i \in 1..Len(hashtags) : HasComma(hashtags[i])
    \/ hashtags = << <<>> >>

(* C1, as stated: the codec round trip.  For every record that holds only  *)
(* the known nested shapes (the metrics dict, the hashtags list, scalars), *)
(* unflatten(flatten(m)) = m.                                              *)
C1_RoundTrip ==
    (codec_pc = "restored" /\ ContentRecordShaped(codec_m)) => codec_out = codec_m

(* C1, amended: the round trip holds for every such record in which no     *)
(* hashtag holds a comma and the hashtags are not the list of one empty    *)
(* string.                                                                 *)
C1_RoundTripJoinable ==
    (/\ codec_pc = "restored"
     /\ ContentRecordShaped(codec_m)
     /\ ~Unjoinable(codec_m[K("hashtags")].v)) => codec_out = codec_m

C1_Witness ==
    /\ codec_pc = "restored"
    /\ ContentRecordShaped(codec_m)
    /\ Len(codec_m[K("hashtags")].v) = 2
    /\ ~Unjoinable(codec_m[K("hashtags")].v)
    /\ codec_flat[K("hashtags")] = PyStr(Join(codec_m[K("hashtags")].v))
    /\ codec_out = codec_m

(* C2: a record with no hashtags flattens to the empty string in the       *)
(* hashtags field, and that field is restored to the empty list, never to  *)
(* the list that holds one empty string.                                   *)
C2_EmptyHashtags ==
    codec_m[K("hashtags")] = PyList(<<>>) =>
        /\ codec_pc \in {"flat", "restored"} =>
               codec_flat[K("hashtags")] = PyStr(<<>>)
        /\ codec_pc = "restored" =>
               /\ codec_out[K("hashtags")] = PyList(<<>>)
               /\ codec_out[K("hashtags")] # PyList(<< <<>> >>)

C2_Witness ==
    /\ codec_pc = "restored"
    /\ codec_m[K("hashtags")] = PyList(<<>>)
    /\ codec_out[K("hashtags")] = PyList(<<>>)

----------------------------------------------------------------------------
(* C3: upsert, last write wins.  After an add, each id of the add has      *)
(* exactly one entry in the index, and get_by_id returns the data of that  *)
(* add, also when the id was in the index before.                          *)
C3_LastWriteWins ==
    (store_last.op = "add" /\ ~store_last.raised) =>
        \A i \in 1..Len(store_last.entries) :
            LET e == store_last.entries[i]
            IN /\ Cardinality({j \in 1..Len(collection) : collection[j].id = e.id}) = 1
               /\ get_by_id(collection, e.id) = get_by_id(<<e>>, e.id)

(* C4: a forced reload is delete-collection-and-reinsert-all.  After       *)
(* load_data(force_reload=True) on a non-empty index, the index holds      *)
(* exactly the records of the posts file just read.                        *)
C4_ForcedReload ==
    (/\ store_last.op = "load_data"
     /\ store_last.force_reload
     /\ store_last.nonempty
     /\ store_last.read) =>
        /\ count(collection) = Len(store_last.posts)
        /\ \A i \in 1..Len(store_last.posts) :
               /\ HasId(collection, PostId(store_last.posts[i]))
               /\ EntryOfId(collection, PostId(store_last.posts[i]))
                      = IndexEntryOf[store_last.posts[i]]

----------------------------------------------------------------------------
\* the inputs the validation is about
UnrecognizedMode(call) ==
    /\ call.entry \in {"api_chat", "api_chat_stream", "cli_mode", "ask"}
    /\ call.mode = "not_a_real_mode"

InvalidInput(call) ==
    \/ /\ call.entry \in {"api_chat", "api_chat_stream", "api_top_posts", "ask",
                          "get_top_posts"}
       /\ call.n_posts < MIN_POSTS \/ call.n_posts > MAX_POSTS
    \/ /\ call.entry \in {"api_recommendations", "get_recommendations"}
       /\ call.focus \notin ValidFocus

Rejected(call) == call.status \in {"400", "422", "503"}

(* C5: mode fallback.  An unrecognized mode string given to an entry point *)
(* is resolved to content_analyst and the call proceeds in that mode; it   *)
(* is not rejected.                                                        *)
C5_ModeFallback ==
    UnrecognizedMode(entry_last) =>
        /\ entry_last.mode_used = DEFAULT_MODE
        /\ entry_last.status \notin {"400", "422", "mode_unknown"}

(* C10: input validation.  A number of posts outside [1,10] or an          *)
(* unrecognized focus is rejected on every entry point before any          *)
(* retrieval or generation work begins, and never replaced by a default.   *)
C10_InvalidInputRejected ==
    InvalidInput(entry_last) =>
        /\ Rejected(entry_last)
        /\ ~entry_last.embedded
        /\ ~entry_last.requested


----------------------------------------------------------------------------
\* a streaming call that read the event stream of a completion to its end
StreamConsumed ==
    /\ cl_pc = "finished"
    /\ cl_call.stream
    /\ cl_call.answer = "completion"
    /\ cl_error = NoError

NonEmpty(frags) == SelectSeq(frags, LAMBDA f : f # <<>>)

(* C6: for the same upstream completion, the fragments of the streaming    *)
(* path, consumed to the end and concatenated in order, are the text the   *)
(* non-streaming path returns; the fragments yielded are the non-empty     *)
(* fragments of the completion, in order, each once, and the consumer      *)
(* holds their concatenation.                                              *)
C6_StreamEqualsNonStream ==
    StreamConsumed =>
        /\ Concat(cl_yielded) = ExtractText(NonStreamBody(cl_completion)).text
        /\ cl_yielded = NonEmpty(cl_completion)
        /\ cl_result.text = Concat(cl_yielded)

C6_Witness ==
    /\ StreamConsumed
    /\ cl_yielded = << <<"Hello">>, <<" ">>, <<"world">> >>
    /\ cl_result.text = <<"Hello", " ", "world">>

\* a streaming call that failed after fragments had been delivered
MidStreamFailure ==
    /\ cl_pc = "finished"
    /\ cl_call.stream
    /\ cl_error # NoError
    /\ cl_yielded # <<>>

(* C7: when a stream fails after some fragments were delivered, ask does   *)
(* not return the truncated text and stores nothing in the conversation    *)
(* history, and the body of /api/chat/stream ends with the error marker.   *)
C7_TruncatedNotAccepted ==
    MidStreamFailure =>
        /\ cl_call.consumer = "ask" =>
               /\ cl_result.status = "raised"
               /\ Len(conversation_history) = cl_call.history_len
        /\ cl_call.consumer = "api_chat_stream" =>
               /\ Len(cl_result.text) > 0
               /\ <<cl_result.text[Len(cl_result.text)]>> = ErrorMarker

\* the transient outcomes of an attempt: a status of the retry list, or a
\* transport failure
Transient(outcome) ==
    \/ outcome.type \in {"connect_error", "read_error"}
    \/ outcome.type = "status" /\ outcome.status \in STATUS_FORCELIST

(* C8: a request that meets a transient error is sent again, at most       *)
(* RETRY_TOTAL times; a call that has ended sent another request after     *)
(* each transient outcome among its first RETRY_TOTAL attempts, and a call *)
(* whose last attempt met a transient outcome ended with a raised error.   *)
C8_TransientRetried ==
    /\ Len(cl_outcomes) <= RETRY_TOTAL + 1
    /\ cl_pc = "finished" =>
           /\ \A i \in 1..Len(cl_outcomes) :
                  Transient(cl_outcomes[i]) /\ i <= RETRY_TOTAL => i < Len(cl_outcomes)
           /\ (cl_outcomes # <<>> /\ Transient(cl_outcomes[Len(cl_outcomes)])) =>
                  cl_error.kind = "RuntimeError"

IsUnauthorized(outcome) == outcome.type = "status" /\ outcome.status = UNAUTHORIZED

----------------------------------------------------------------------------
\* the last call was a read of the index
IsRead == store_last.op \in {"query", "get_by_id", "get_all"}

(* C11: a read of the vector index never turns a failure into an empty    *)
(* result: when query returns the empty list, get_by_id the absent value   *)
(* or get_all the empty dict, the index holds no matching entry (a failed  *)
(* call on the collection has raised instead).                             *)
C11_ReadFailureSurfaces ==
    (IsRead /\ ~store_last.raised) =>
        /\ (store_last.op = "query" /\ store_last.results = <<>>) => collection = <<>>
        /\ (store_last.op = "get_by_id" /\ store_last.result = None) =>
               ~HasId(collection, store_last.id)
        /\ (store_last.op = "get_all" /\ store_last.result.ids = <<>>) =>
               collection = <<>>

\* the last call was a query whose call on the collection went through
Queried == store_last.op = "query" /\ ~store_last.failed

Min(a, b) == IF a < b THEN a ELSE b

(* C16: for any index contents and any k >= 1, query returns exactly       *)
(* min(k, count()) results, each a different entry of the index: k larger  *)
(* than the index returns count() results without padding or error, and an *)
(* empty index returns the empty sequence without error.                   *)
C16_QueryReturnsMin ==
    (Queried /\ store_last.n_results >= 1) =>
        /\ ~store_last.raised
        /\ Len(store_last.results) = Min(store_last.n_results, count(collection))
        /\ DistinctIds([i \in 1..Len(store_last.results) |-> store_last.results[i].id])
        /\ \A i \in 1..Len(store_last.results) :
               HasId(collection, store_last.results[i].id)

C16_Witness ==
    /\ Queried
    /\ store_last.n_results > count(collection)
    /\ count(collection) = Cardinality(PostIds)
    /\ Len(store_last.results) = count(collection)

(* C17: the results of a query are in non-decreasing distance order, the   *)
(* distance of each result is the distance of its entry to the query       *)
(* vector, and no entry left out is nearer than an entry returned.         *)
C17_DistanceOrder ==
    Queried =>
        LET results == store_last.results
        IN /\ \A i, j \in 1..Len(results) :
                  i < j => results[i].distance <= results[j].distance
           /\ \A i \in 1..Len(results) :
                  /\ HasId(collection, results[i].id)
                  /\ results[i].distance =
                         Distance(EntryOfId(collection, results[i].id).embedding,
                                  store_last.embedding)
           /\ \A i \in 1..Len(results), k \in 1..Len(collection) :
                  (\A j \in 1..Len(results) : results[j].id # collection[k].id) =>
                      results[i].distance <= Distance(collection[k].embedding,
                                                      store_last.embedding)

\* two results, the nearest one being the entry added last
C17_Witness ==
    /\ Queried
    /\ Len(store_last.results) = Cardinality(PostIds)
    /\ store_last.results[1].distance < store_last.results[2].distance
    /\ store_last.results[1].id = collection[2].id

----------------------------------------------------------------------------
\* the system prompt of the call has been built
SystemPromptBuilt == pr_pc \in {"system", "prompted", "raised"}

\* metrics.<key> of a retrieved record
MetricOf(post, key) == post.metadata[K("metrics")].v[K(key)].v

\* the rendered mean of a metric over the retrieved records
MeanOf(posts, key) ==
    Format0f(SumSeq([i \in 1..Len(posts) |-> MetricOf(posts[i], key)]), Len(posts))

Rendered(label, value) ==
    \E i \in 1..Len(system_prompt) :
        system_prompt[i].label = label /\ system_prompt[i].value = value

(* C13: the aggregate figures of the context block are computed over the   *)
(* retrieved records: the rendered mean likes and mean comments are the    *)
(* arithmetic means of metrics.likes and metrics.comments of the records   *)
(* retrieval returned for this call.                                       *)
C13_AggregatesOverRetrieved ==
    (SystemPromptBuilt /\ relevant_posts # <<>>) =>
        /\ Rendered("Moyenne de likes", PyInt(MeanOf(relevant_posts, "likes")))
        /\ Rendered("Moyenne de commentaires", PyInt(MeanOf(relevant_posts, "comments")))

SectionRendered(section) ==
    \E i \in 1..Len(system_prompt) : system_prompt[i].section = section

(* C14: a section of the context block is appended only when its input is  *)
(* present: with no profile loaded the creator section is omitted, with    *)
(* zero retrieved records the content section is omitted.                  *)
C14_AbsentSectionOmitted ==
    SystemPromptBuilt =>
        /\ influencer_profile.t = "none" => ~SectionRendered("user_data")
        /\ relevant_posts = <<>> => ~SectionRendered("posts_data")

(* C15: when retrieval returns zero records the posts section of the user  *)
(* prompt is the fixed sentinel text and no block; when it returns n >= 1  *)
(* records the section holds n blocks, numbered 1..n, block i rendering    *)
(* the i-th record retrieved.                                              *)
C15_PostsSection ==
    pr_pc = "prompted" =>
        IF relevant_posts = <<>>
        THEN user_prompt.text = SENTINEL /\ user_prompt.blocks = <<>>
        ELSE /\ user_prompt.text = <<>>
             /\ Len(user_prompt.blocks) = Len(relevant_posts)
             /\ \A i \in 1..Len(relevant_posts) :
                    /\ user_prompt.blocks[i].number = i
                    /\ user_prompt.blocks[i] = PostBlock(i, relevant_posts[i])
                    /\ user_prompt.blocks[i].likes = MetricOf(relevant_posts[i], "likes")

C15_Witness ==
    /\ pr_pc = "prompted"
    /\ Len(relevant_posts) = Cardinality(PostIds)
    /\ Len(user_prompt.blocks) = Cardinality(PostIds)
    /\ user_prompt.blocks[1].likes # user_prompt.blocks[2].likes

----------------------------------------------------------------------------
\* the narration step of the call has failed
TtsFailed ==
    /\ vo_requests # <<>>
    /\ vo_requests[Len(vo_requests)].to = "tts"
    /\ vo_requests[Len(vo_requests)].outcome # "ok"

(* C12: if the narration step fails after the summary text was generated,  *)
(* the caller of generate_voice_impact_summary still obtains the summary   *)
(* text and the metrics; only the audio is missing.                        *)
C12_TextSurvivesTtsFailure ==
    TtsFailed =>
        /\ vo_result.status = "returned"
        /\ vo_result.text = vo_summary.text
        /\ vo_result.metrics = vo_summary.metrics

(* C18: a voice summary requested when the index holds zero posts fails    *)
(* explicitly: generate_voice_summary raises ValueError, no request has    *)
(* been sent to the language model or to the TTS API, and there is no      *)
(* summary data.                                                           *)
C18_ZeroPostsFailExplicitly ==
    (collection = <<>> /\ vo_pc # "idle") =>
        /\ vo_pc = "raised"
        /\ vo_result = Raised("ValueError")
        /\ vo_requests = <<>>
        /\ vo_summary = NoSummary

C18_Witness ==
    /\ collection = <<>>
    /\ vo_pc = "raised"
    /\ vo_result.error = "ValueError"
    /\ vo_requests = <<>>

\* the impact metrics of the call have been computed
HasMetrics == vo_summary.stage \in {"metrics", "text"}

(* C19: calculate_impact_metrics never divides by zero: no call ends with  *)
(* ZeroDivisionError, no quotient has a zero divisor, and with followers   *)
(* = 0 the virality ratio is 0, with a zero account average the engagement *)
(* difference is 0, with zero interactions the active-engagement           *)
(* percentage is 0.                                                        *)
C19_NoDivisionByZero ==
    /\ vo_result.status = "raised" => vo_result.error # "ZeroDivisionError"
    /\ HasMetrics =>
           LET m == vo_summary.metrics
           IN /\ ~m.raised
              /\ m.avg_engagement.den # 0
              /\ m.engagement_diff_pct.den # 0
              /\ m.virality_ratio.den # 0
              /\ m.active_engagement_pct.den # 0
              /\ m.followers = 0 => m.virality_ratio = Zero
              /\ m.followers > 0 => m.virality_ratio = Quot(m.reach * 100, m.followers)
              /\ m.avg_engagement.num = 0 => m.engagement_diff_pct = Zero
              /\ m.total_interactions = 0 => m.active_engagement_pct = Zero

\* two posts in the index, no follower, no engagement elsewhere, no interaction
C19_Witness ==
    /\ HasMetrics
    /\ Len(collection) = Cardinality(PostIds)
    /\ vo_summary.metrics.followers = 0
    /\ vo_summary.metrics.avg_engagement.num = 0
    /\ vo_summary.metrics.total_interactions = 0
    /\ vo_summary.metrics.virality_ratio = Zero

----------------------------------------------------------------------------
\* the model's dimension is not the configured one, or not the one of the
\* embeddings the persisted index holds
DimensionMismatch ==
    \/ st_dims.model # st_dims.configured
    \/ ~DimensionAccepted(st_dims.index, st_dims.model)

(* C20: a mismatch between the embedding model's dimension and the         *)
(* configured vector-index dimension is a fatal error of the construction: *)
(* the components never start with a mismatch, and no add or query after   *)
(* the start fails on the dimension.                                       *)
C20_MismatchFatalAtStartup ==
    /\ (st_pc # "off" /\ DimensionMismatch) => st_pc = "failed"
    /\ st_last.op \in {"add", "query"} => ~st_last.raised

----------------------------------------------------------------------------
\* the step is a load_data that found its profile file
LoadedData == store_last'.op = "load_data" /\ store_last'.raised # "FileNotFoundError"

(* C26: load_data without force_reload on a non-empty index leaves the     *)
(* index as it is and does not read the posts file, while it replaces the  *)
(* profile in memory with the one of the profile file; the posts are       *)
(* indexed only when the index is empty or force_reload is set.            *)
C26_UnforcedLoadKeepsIndex ==
    [][/\ (LoadedData /\ ~store_last'.force_reload /\ count(collection) > 0) =>
              /\ collection' = collection
              /\ ~store_last'.read
              /\ influencer_profile' = store_last'.profile_file
       /\ (LoadedData /\ store_last'.read) =>
              (count(collection) = 0 \/ store_last'.force_reload)]_vars

C26_Witness ==
    /\ store_last.op = "load_data"
    /\ ~store_last.force_reload
    /\ store_last.nonempty
    /\ store_last.raised = "none"
    /\ count(collection) > 1
    /\ influencer_profile = Profile(1000)

----------------------------------------------------------------------------
\* the completion signal: the [DONE] line, or a chunk with a finish_reason
IsSignal(line) == line.kind = "done" \/ (line.kind = "chunk" /\ line.finish)

\* the generator has ended
Ended(pc) == pc = "finished"

(* C23: the fragment sequence is finite and yields nothing after the       *)
(* completion signal.  The line that carries the signal ends the sequence  *)
(* in the step that reads it (a chunk with a finish_reason yields its own  *)
(* content at most), every turn of the loop consumes a line of the body,   *)
(* and an ended sequence yields nothing, reads nothing and sends nothing   *)
(* when it is pulled again.                                                *)
C23_NoYieldAfterCompletion ==
    [][/\ (cl_pc = "reading" /\ cl_wire # <<>> /\ IsSignal(Head(cl_wire))) =>
              /\ cl_pc' = "finished"
              /\ cl_yielded' = cl_yielded
                                \o (IF Head(cl_wire).kind = "chunk"
                                       /\ Head(cl_wire).content # <<>>
                                    THEN <<Head(cl_wire).content>> ELSE <<>>)
       /\ (cl_pc = "reading" /\ cl_pc' = "reading") => Len(cl_wire') < Len(cl_wire)
       /\ (Ended(cl_pc) /\ Ended(cl_pc')) =>
              /\ cl_yielded' = cl_yielded
              /\ cl_wire' = cl_wire
              /\ cl_outcomes' = cl_outcomes
       /\ (cl_pc = "finished" /\ cl_call'.exhausted) => cl_pc' = "finished"]_vars

C23_Witness ==
    /\ cl_pc = "finished"
    /\ cl_call.exhausted
    /\ cl_error = NoError
    /\ cl_yielded = << <<"Hello">>, <<"world">> >>
    /\ cl_wire = <<Late>>

\* seq is the start of whole
IsPrefix(seq, whole) == Len(seq) <= Len(whole) /\ seq = SubSeq(whole, 1, Len(seq))

(* C24: no retry is attempted mid-stream.  Once a fragment has been        *)
(* yielded, a dropped connection ends the call with the network error      *)
(* raised, no request is sent again for that call, and the fragments       *)
(* delivered are the first non-empty fragments of the completion, each     *)
(* once.                                                                   *)
C24_NoRetryMidStream ==
    [][/\ (cl_pc = "reading" /\ cl_yielded # <<>> /\ cl_wire # <<>>
           /\ Head(cl_wire).kind = "drop") =>
              /\ cl_pc' = "finished"
              /\ cl_error' = NetworkError("drop", HTTP_OK)
              /\ cl_yielded' = cl_yielded
              /\ cl_outcomes' = cl_outcomes
       /\ (cl_yielded # <<>> /\ cl_outcomes' # cl_outcomes) =>
              (cl_pc' \in {"created", "posting"} /\ cl_outcomes' = <<>>
               /\ cl_yielded' = <<>>)
       /\ cl_call'.answer = "completion" =>
              IsPrefix(cl_yielded', NonEmpty(cl_completion'))]_vars

C24_Witness ==
    /\ cl_pc = "finished"
    /\ cl_call.stream
    /\ cl_error = NetworkError("drop", HTTP_OK)
    /\ cl_yielded = << <<"Hello">> >>
    /\ cl_completion = << <<"Hello">>, <<"world">> >>
    /\ cl_outcomes = <<[type |-> "connect_error", status |-> 0], Answer200>>

----------------------------------------------------------------------------
\* user and assistant entries in turn, the user first
Alternates(history) ==
    /\ Len(history) % 2 = 0
    /\ \A i \in 1..Len(history) :
           history[i].role = IF i % 2 = 1 THEN "user" ELSE "assistant"

\* the step is the command `clear`: the call and its outcome stay as they were
ClearStep ==
    /\ conversation_history # <<>>
    /\ UNCHANGED <<cl_call, cl_error, cl_result>>

(* C27: after any sequence of ask calls and `clear` commands the           *)
(* conversation history has even length and alternates user and assistant *)
(* entries in call order: an ask that returns appends the question as a    *)
(* user entry and the returned response as an assistant entry, an ask      *)
(* that raises appends nothing, and `clear` empties the history.           *)
C27_HistoryAlternates ==
    [][/\ Alternates(conversation_history')
       /\ IF ClearStep
          THEN conversation_history' = <<>>
          ELSE /\ cl_result'.status \in {"returned", "raised"}
               /\ cl_result'.status = "returned" =>
                      conversation_history' =
                          conversation_history
                          \o <<HistoryEntry("user", cl_call'.question),
                               HistoryEntry("assistant", cl_result'.text)>>
               /\ cl_result'.status = "raised" =>
                      conversation_history' = conversation_history]_vars

C27_Witness ==
    /\ Len(conversation_history) = 4
    /\ conversation_history[1] = HistoryEntry("user", <<"q0">>)
    /\ conversation_history[2] = HistoryEntry("assistant", <<"Hello", " ", "world">>)
    /\ conversation_history[3] = HistoryEntry("user", <<"q1">>)
    /\ conversation_history[4] = HistoryEntry("assistant", <<"Hello">>)
    /\ cl_call.stream
    /\ cl_error = NetworkError("drop", HTTP_OK)

----------------------------------------------------------------------------
(* C30: load_prompt reads a template file at most once per prompt type     *)
(* unless force_reload is set or reload_all_prompts is called.  A load     *)
(* without force_reload of a cached type returns the cached text and       *)
(* reads no file, whatever the file has become; a file is read only for a  *)
(* type that is not cached or under force_reload; a forced load of an      *)
(* existing file returns its current content and caches it; after          *)
(* reload_all_prompts the cache holds the current content of every         *)
(* existing file and nothing else.                                         *)
C30_TemplateReadOnce ==
    /\ pm_last.op = "load_prompt" =>
           /\ (~pm_last.force_reload /\ pm_last.cached.t = "file") =>
                  /\ pm_last.raised = "none"
                  /\ ~pm_last.read
                  /\ pm_last.text = pm_last.cached.v
                  /\ prompts_cache[pm_last.prompt_type] = pm_last.cached.v
           /\ pm_last.read => (pm_last.force_reload \/ pm_last.cached.t = "missing")
           /\ (pm_last.force_reload /\ pm_last.file.t = "file") =>
                  /\ pm_last.read
                  /\ pm_last.text = pm_last.file.v
                  /\ prompts_cache[pm_last.prompt_type] = pm_last.file.v
    /\ pm_last.op = "reload_all_prompts" =>
           /\ DOMAIN prompts_cache = {t \in PromptTypes : pm_last.files[t].t = "file"}
           /\ \A t \in DOMAIN prompts_cache : prompts_cache[t] = pm_last.files[t].v

C30_Witness ==
    /\ pm_last.op = "load_prompt"
    /\ ~pm_last.force_reload
    /\ pm_last.cached = File("template v1")
    /\ pm_last.file = File("template v2")
    /\ pm_last.text = "template v1"
    /\ prompt_files[pm_last.prompt_type] = Missing

----------------------------------------------------------------------------
\* the call is one of generate_with_mode that has asked for its template,
\* and the template file was missing then
TemplateMissing ==
    /\ gm_call.entry = "generate_with_mode"
    /\ gm_locals.loaded.op = "load_prompt"
    /\ gm_locals.loaded.file.t = "missing"

\* the call failed on the template: no system prompt, no request, no cache entry
FailedOnTemplate ==
    /\ gm_pc = "raised"
    /\ gm_result = GmRaised("FileNotFoundError")
    /\ gm_locals.system_prompt = <<>>
    /\ gm_requests = <<>>
    /\ get_prompt_for_mode(gm_call.mode) \notin DOMAIN prompts_cache

(* C21, as stated: when the template file of the requested mode is         *)
(* missing, generate_with_mode fails with FileNotFoundError, sends no      *)
(* completion request, builds no system prompt and caches nothing.         *)
C21_MissingTemplateFails == TemplateMissing => FailedOnTemplate

(* C21, amended: when the template file of the requested mode is missing   *)
(* and no text is cached for its prompt type, generate_with_mode fails     *)
(* with FileNotFoundError, sends no completion request, builds no system   *)
(* prompt and caches nothing.                                              *)
C21_MissingUncachedTemplateFails ==
    (TemplateMissing /\ gm_locals.loaded.cached.t = "missing") => FailedOnTemplate

C21_Witness ==
    /\ TemplateMissing
    /\ gm_locals.loaded.cached.t = "missing"
    /\ gm_pc = "raised"
    /\ gm_locals.relevant_posts # <<>>
    /\ gm_stages = <<"mode_selected", "posts_retrieved">>

----------------------------------------------------------------------------
\* the stages of the call so far hold `stage`
Reached(stage) == \E i \in 1..Len(gm_stages) : gm_stages[i] = stage

(* C22: when streaming is requested, generate_with_mode returns with the   *)
(* mode, the retrieved posts and the question in its result, retrieval     *)
(* and prompt building done, and no request sent to the language model;    *)
(* the request is sent when the caller pulls the first fragment, once,     *)
(* and a stream that is never pulled causes no request.                    *)
C22_StreamReturnsBeforeRequest ==
    gm_call.stream =>
        /\ gm_pc = "returned" =>
               /\ gm_result.answer.kind = "stream"
               /\ gm_result.mode = gm_call.mode
               /\ gm_result.question = gm_call.question
               /\ gm_result.relevant_posts =
                      retrieve_relevant_posts(collection, gm_call.question,
                                              gm_call.n_results)
               /\ Reached("posts_retrieved")
               /\ Reached("prompts_built")
        /\ gm_pc # "pulled" => gm_requests = <<>>
        /\ gm_pc = "pulled" => Len(gm_requests) = 1 /\ gm_requests[1].stream

C22_Witness ==
    /\ gm_call.entry = "generate_with_mode"
    /\ gm_call.stream
    /\ gm_pc = "returned"
    /\ gm_requests = <<>>
    /\ Len(gm_result.relevant_posts) = 1

----------------------------------------------------------------------------
\* the call has ended with a result dict returned to the caller
Succeeded == gm_pc \in {"returned", "pulled"}

\* a step of the call's stages: the next stage of STAGES is added, or a new
\* call starts from the first stage with nothing left of the call before
StageStep ==
    gm_stages' # gm_stages =>
        \/ /\ Len(gm_stages) < Len(STAGES)
           /\ gm_stages' = Append(gm_stages, STAGES[Len(gm_stages) + 1])
        \/ /\ gm_pc \in {"idle", "returned", "pulled", "raised"}
           /\ gm_stages' = <<"mode_selected">>
           /\ gm_locals' = NoLocals
           /\ gm_requests' = <<>>
           /\ gm_result' = NoGmResult

----------------------------------------------------------------------------
\* the payload with its `stream` flag cleared
WithoutStreamFlag(payload) == [payload EXCEPT !.stream = FALSE]

(* C28: the streaming and the non-streaming path send the same sampling    *)
(* parameters: every request sent for a call is, the `stream` flag apart,  *)
(* the payload the non-streaming path builds from the same arguments, a    *)
(* temperature or max_tokens passed as None being replaced by the          *)
(* configured default on both paths.                                       *)
C28_SamePayloadBothPaths ==
    \A i \in 1..Len(gm_requests) :
        WithoutStreamFlag(gm_requests[i]) =
            ChatPayload(gm_call.temperature, gm_call.max_tokens, FALSE)

(* C29: a question asked before any profile is loaded still gets its       *)
(* prompts built and a completion requested: build_user_prompt does not    *)
(* raise.                                                                  *)
C29_NoProfileStillBuilds ==
    (influencer_profile = None /\ Reached("posts_retrieved")
        /\ gm_pc \notin {"retrieved", "system"}
        /\ gm_result # GmRaised("FileNotFoundError"))
    => Reached("prompts_built")

====
